---- MODULE Spec2Model ----
(***************************************************************************)
(* rustetris: the controlled-block turn state machine, the placement and   *)
(* collision engine and the turn orchestrator (execute_game), as a state   *)
(* machine.  Positions are i8 pairs (x to the right, y downwards); the     *)
(* values that occur stay far inside the i8 range.                         *)
(***************************************************************************)
EXTENDS Integers, Sequences, FiniteSets, TLC

\* ------------------------------------------------------------------------
\* Program constants
\* ------------------------------------------------------------------------
WIDTH == 10

HEIGHT == 20

BLOCK_TABLE_SIZE == 5

NEXT_BLOCK_NUM == 2

\* ------------------------------------------------------------------------
\* Bounds of the model
\* ------------------------------------------------------------------------
\* number of turns of execute_game in which commands are still supplied
MaxTurns == 1

\* ------------------------------------------------------------------------
\* Option values
\* ------------------------------------------------------------------------
None == [some |-> FALSE]

Some(v) == [some |-> TRUE, val |-> v]

\* ------------------------------------------------------------------------
\* Cell (cell.rs)
\* ------------------------------------------------------------------------
is_empty(cell) == cell = "Empty"

\* ------------------------------------------------------------------------
\* Positions and movements (geometry/position.rs)
\* ------------------------------------------------------------------------
Pos(x, y) == [x |-> x, y |-> y]

origin == Pos(0, 0)

\* Pos - Pos -> Movement
pos_sub(p, q) == [x |-> p.x - q.x, y |-> p.y - q.y]

\* Pos + Movement -> Pos
pos_add(p, m) == [x |-> p.x + m.x, y |-> p.y + m.y]

right(shift) == [x |-> shift, y |-> 0]

left(shift) == [x |-> 0 - shift, y |-> 0]

below(shift) == [x |-> 0, y |-> shift]

above(shift) == [x |-> 0, y |-> 0 - shift]

\* i8 -> Option<usize>: None for a negative coordinate
as_positive_index(v) == IF v >= 0 THEN Some(v) ELSE None

\* ------------------------------------------------------------------------
\* Shake (data_type/shake.rs): 0, 1, -1, 2, -2, ...
\* ------------------------------------------------------------------------
Shake_new == 0

\* Shake::next as it would be if it only counted up
Shake_next_counting_up(current) == current + 1

Shake_next(current) ==
    IF current = 0 THEN 1
    ELSE IF current > 0 THEN 0 - current
    ELSE (0 - current) + 1

\* Shake::<i8>: the values of an i8, and the i8 an overflowing result wraps to
\* in a build without overflow checks
i8_values == (0 - 128) .. 127

i8_wrapping(v) == ((v + 128) % 256) - 128

abs(v) == IF v < 0 THEN 0 - v ELSE v

RECURSIVE Shake_take(_, _)
\* Shake { current }.take(n)
Shake_take(current, n) ==
    IF n = 0 THEN <<>>
    ELSE <<current>> \o Shake_take(Shake_next(current), n - 1)

RECURSIVE Shake_take_while_abs(_, _)
\* Shake { current }.take_while(|v| v.abs() <= shift_max)
Shake_take_while_abs(current, shift_max) ==
    IF abs(current) <= shift_max
    THEN <<current>> \o Shake_take_while_abs(Shake_next(current), shift_max)
    ELSE <<>>

\* ------------------------------------------------------------------------
\* Block templates (block_template.rs)
\* ------------------------------------------------------------------------
EM == [tag |-> "Empty", label |-> 0]

O0 == [tag |-> "Occupied", label |-> 0]

O1 == [tag |-> "Occupied", label |-> 1]

O2 == [tag |-> "Occupied", label |-> 2]

O3 == [tag |-> "Occupied", label |-> 3]

\* block_template.rs:557-586
TABLE_O == <<
   << <<EM, EM, EM, EM, EM>>,
      <<EM, EM, O3, O2, EM>>,
      <<EM, EM, O0, O1, EM>>,
      <<EM, EM, EM, EM, EM>>,
      <<EM, EM, EM, EM, EM>> >>,
   << <<EM, EM, EM, EM, EM>>,
      <<EM, EM, O0, O3, EM>>,
      <<EM, EM, O1, O2, EM>>,
      <<EM, EM, EM, EM, EM>>,
      <<EM, EM, EM, EM, EM>> >>,
   << <<EM, EM, EM, EM, EM>>,
      <<EM, EM, O1, O0, EM>>,
      <<EM, EM, O2, O3, EM>>,
      <<EM, EM, EM, EM, EM>>,
      <<EM, EM, EM, EM, EM>> >>,
   << <<EM, EM, EM, EM, EM>>,
      <<EM, EM, O2, O1, EM>>,
      <<EM, EM, O3, O0, EM>>,
      <<EM, EM, EM, EM, EM>>,
      <<EM, EM, EM, EM, EM>> >>
>>

\* block_template.rs:588-617
TABLE_Z == <<
   << <<EM, EM, EM, EM, EM>>,
      <<EM, EM, EM, O3, EM>>,
      <<EM, EM, O0, O2, EM>>,
      <<EM, EM, O1, EM, EM>>,
      <<EM, EM, EM, EM, EM>> >>,
   << <<EM, EM, EM, EM, EM>>,
      <<EM, EM, EM, EM, EM>>,
      <<EM, O1, O0, EM, EM>>,
      <<EM, EM, O2, O3, EM>>,
      <<EM, EM, EM, EM, EM>> >>,
   << <<EM, EM, EM, EM, EM>>,
      <<EM, EM, O1, EM, EM>>,
      <<EM, O2, O0, EM, EM>>,
      <<EM, O3, EM, EM, EM>>,
      <<EM, EM, EM, EM, EM>> >>,
   << <<EM, EM, EM, EM, EM>>,
      <<EM, O3, O2, EM, EM>>,
      <<EM, EM, O0, O1, EM>>,
      <<EM, EM, EM, EM, EM>>,
      <<EM, EM, EM, EM, EM>> >>
>>

\* block_template.rs:619-648
TABLE_S == <<
   << <<EM, EM, EM, EM, EM>>,
      <<EM, EM, O1, EM, EM>>,
      <<EM, EM, O0, O2, EM>>,
      <<EM, EM, EM, O3, EM>>,
      <<EM, EM, EM, EM, EM>> >>,
   << <<EM, EM, EM, EM, EM>>,
      <<EM, EM, EM, EM, EM>>,
      <<EM, EM, O0, O1, EM>>,
      <<EM, O3, O2, EM, EM>>,
      <<EM, EM, EM, EM, EM>> >>,
   << <<EM, EM, EM, EM, EM>>,
      <<EM, O3, EM, EM, EM>>,
      <<EM, O2, O0, EM, EM>>,
      <<EM, EM, O1, EM, EM>>,
      <<EM, EM, EM, EM, EM>> >>,
   << <<EM, EM, EM, EM, EM>>,
      <<EM, EM, O2, O3, EM>>,
      <<EM, O1, O0, EM, EM>>,
      <<EM, EM, EM, EM, EM>>,
      <<EM, EM, EM, EM, EM>> >>
>>

\* block_template.rs:650-679
TABLE_J == <<
   << <<EM, EM, EM, EM, EM>>,
      <<EM, EM, O2, O3, EM>>,
      <<EM, EM, O1, EM, EM>>,
      <<EM, EM, O0, EM, EM>>,
      <<EM, EM, EM, EM, EM>> >>,
   << <<EM, EM, EM, EM, EM>>,
      <<EM, EM, EM, EM, EM>>,
      <<EM, O0, O1, O2, EM>>,
      <<EM, EM, EM, O3, EM>>,
      <<EM, EM, EM, EM, EM>> >>,
   << <<EM, EM, EM, EM, EM>>,
      <<EM, EM, O0, EM, EM>>,
      <<EM, EM, O1, EM, EM>>,
      <<EM, O3, O2, EM, EM>>,
      <<EM, EM, EM, EM, EM>> >>,
   << <<EM, EM, EM, EM, EM>>,
      <<EM, O3, EM, EM, EM>>,
      <<EM, O2, O1, O0, EM>>,
      <<EM, EM, EM, EM, EM>>,
      <<EM, EM, EM, EM, EM>> >>
>>

\* block_template.rs:681-710
TABLE_L == <<
   << <<EM, EM, EM, EM, EM>>,
      <<EM, EM, O0, EM, EM>>,
      <<EM, EM, O1, EM, EM>>,
      <<EM, EM, O2, O3, EM>>,
      <<EM, EM, EM, EM, EM>> >>,
   << <<EM, EM, EM, EM, EM>>,
      <<EM, EM, EM, EM, EM>>,
      <<EM, O2, O1, O0, EM>>,
      <<EM, O3, EM, EM, EM>>,
      <<EM, EM, EM, EM, EM>> >>,
   << <<EM, EM, EM, EM, EM>>,
      <<EM, O3, O2, EM, EM>>,
      <<EM, EM, O1, EM, EM>>,
      <<EM, EM, O0, EM, EM>>,
      <<EM, EM, EM, EM, EM>> >>,
   << <<EM, EM, EM, EM, EM>>,
      <<EM, EM, EM, O3, EM>>,
      <<EM, O0, O1, O2, EM>>,
      <<EM, EM, EM, EM, EM>>,
      <<EM, EM, EM, EM, EM>> >>
>>

\* block_template.rs:712-741
TABLE_T == <<
   << <<EM, EM, EM, EM, EM>>,
      <<EM, EM, O0, EM, EM>>,
      <<EM, EM, O1, O3, EM>>,
      <<EM, EM, O2, EM, EM>>,
      <<EM, EM, EM, EM, EM>> >>,
   << <<EM, EM, EM, EM, EM>>,
      <<EM, EM, EM, EM, EM>>,
      <<EM, O2, O1, O0, EM>>,
      <<EM, EM, O3, EM, EM>>,
      <<EM, EM, EM, EM, EM>> >>,
   << <<EM, EM, EM, EM, EM>>,
      <<EM, EM, O2, EM, EM>>,
      <<EM, O3, O1, EM, EM>>,
      <<EM, EM, O0, EM, EM>>,
      <<EM, EM, EM, EM, EM>> >>,
   << <<EM, EM, EM, EM, EM>>,
      <<EM, EM, O3, EM, EM>>,
      <<EM, O0, O1, O2, EM>>,
      <<EM, EM, EM, EM, EM>>,
      <<EM, EM, EM, EM, EM>> >>
>>

\* block_template.rs:743-772
TABLE_I == <<
   << <<EM, EM, O0, EM, EM>>,
      <<EM, EM, O1, EM, EM>>,
      <<EM, EM, O2, EM, EM>>,
      <<EM, EM, O3, EM, EM>>,
      <<EM, EM, EM, EM, EM>> >>,
   << <<EM, EM, EM, EM, EM>>,
      <<EM, EM, EM, EM, EM>>,
      <<EM, O3, O2, O1, O0>>,
      <<EM, EM, EM, EM, EM>>,
      <<EM, EM, EM, EM, EM>> >>,
   << <<EM, EM, O3, EM, EM>>,
      <<EM, EM, O2, EM, EM>>,
      <<EM, EM, O1, EM, EM>>,
      <<EM, EM, O0, EM, EM>>,
      <<EM, EM, EM, EM, EM>> >>,
   << <<EM, EM, EM, EM, EM>>,
      <<EM, EM, EM, EM, EM>>,
      <<EM, O0, O1, O2, O3>>,
      <<EM, EM, EM, EM, EM>>,
      <<EM, EM, EM, EM, EM>> >>
>>

\* CellTagTableCollection of a shape (block_template::get_cell_tag_collection)
get_cell_tag_collection(shape) ==
    CASE shape = "O" -> TABLE_O
      [] shape = "Z" -> TABLE_Z
      [] shape = "S" -> TABLE_S
      [] shape = "J" -> TABLE_J
      [] shape = "L" -> TABLE_L
      [] shape = "T" -> TABLE_T
      [] shape = "I" -> TABLE_I

\* Index<Direction> for CellTagTableCollection
direction_index(d) ==
    CASE d = "Right" -> 0
      [] d = "Below" -> 1
      [] d = "Left"  -> 2
      [] d = "Above" -> 3

\* Direction::rotate_clockwise as it would be if it made a half turn
Direction_rotate_half_turn(d) ==
    CASE d = "Left"  -> "Right"
      [] d = "Above" -> "Below"
      [] d = "Right" -> "Left"
      [] d = "Below" -> "Above"

Direction_rotate_clockwise(d) ==
    CASE d = "Left"  -> "Above"
      [] d = "Above" -> "Right"
      [] d = "Right" -> "Below"
      [] d = "Below" -> "Left"

Direction_rotate_unticlockwise(d) ==
    CASE d = "Left"  -> "Below"
      [] d = "Below" -> "Right"
      [] d = "Right" -> "Above"
      [] d = "Above" -> "Left"

BombTag_None == [kind |-> "None", label |-> 0]

BombTag_All == [kind |-> "All", label |-> 0]

BombTag_Single(j) == [kind |-> "Single", label |-> j]

TableIndex == 0 .. (BLOCK_TABLE_SIZE - 1)

\* Block::generate_cells, the match on one CellTag of the table
generate_cell(source, bomb_tag) ==
    IF source.tag = "Occupied"
    THEN CASE bomb_tag.kind = "All" -> "Bomb"
           [] bomb_tag.kind = "None" -> "Normal"
           [] bomb_tag.kind = "Single" ->
                IF source.label = bomb_tag.label THEN "Bomb" ELSE "Normal"
    ELSE "Empty"

\* Block::generate_cells: the 5x5 cell table, cells[y][x]
generate_cells(tables, direction, bomb_tag) ==
    LET table == get_cell_tag_collection(tables)[direction_index(direction) + 1]
    IN  [y \in TableIndex |-> [x \in TableIndex |->
            generate_cell(table[y + 1][x + 1], bomb_tag)]]

\* Block::new; the cell table of the block is generate_cells of its three fields
Block_new(tables, direction, bomb_tag) ==
    [tables |-> tables, direction |-> direction, bomb_tag |-> bomb_tag]

rotate_clockwise(block) ==
    Block_new(block.tables, Direction_rotate_clockwise(block.direction), block.bomb_tag)

rotate_unticlockwise(block) ==
    Block_new(block.tables, Direction_rotate_unticlockwise(block.direction), block.bomb_tag)

\* Block::cell_table_size is called by the placement code but its body is not
\* part of the sources; the block is a BLOCK_TABLE_SIZE x BLOCK_TABLE_SIZE table
cell_table_size(block) == BLOCK_TABLE_SIZE

\* the (pos, cell) pairs of the non-empty cells of a cell table, row by row from
\* the top, each row from the left
pos_and_occupied_cell(cells) ==
    SelectSeq([i \in 1 .. (BLOCK_TABLE_SIZE * BLOCK_TABLE_SIZE) |->
                  [pos |-> Pos((i - 1) % BLOCK_TABLE_SIZE, (i - 1) \div BLOCK_TABLE_SIZE),
                   cell |-> cells[(i - 1) \div BLOCK_TABLE_SIZE][(i - 1) % BLOCK_TABLE_SIZE]]],
              LAMBDA e : e.cell # "Empty")

\* the values of BombTag for the four cells of a block
BombTags == {BombTag_None, BombTag_All} \cup {BombTag_Single(j) : j \in 0 .. 3}

\* a block never changes and its pairs are the same at every call: the pairs of
\* every block, computed once
OccupiedCells ==
    [tables \in {"O", "Z", "S", "J", "L", "T", "I"} |->
        [direction \in {"Right", "Below", "Left", "Above"} |->
            [bomb_tag \in BombTags |->
                pos_and_occupied_cell(generate_cells(tables, direction, bomb_tag))]]]

\* Block::iter_pos_and_occupied_cell
iter_pos_and_occupied_cell(block) ==
    OccupiedCells[block.tables][block.direction][block.bomb_tag]

\* the pairs moved by diff
moved_pos_and_occupied_cell(s, diff) ==
    [i \in 1 .. Len(s) |-> [pos |-> pos_add(s[i].pos, diff), cell |-> s[i].cell]]

\* ControlledBlock::iter_pos_and_occupied_cell: the same pairs in field coordinates
ControlledBlock_iter_pos_and_occupied_cell(cb) ==
    moved_pos_and_occupied_cell(iter_pos_and_occupied_cell(cb.block),
                                pos_sub(cb.left_top, origin))

ControlledBlock_new(block, left_top) == [block |-> block, left_top |-> left_top]

\* ------------------------------------------------------------------------
\* Field (field.rs): cells[y][x]
\* ------------------------------------------------------------------------
Field_empty == [y \in 0 .. (HEIGHT - 1) |-> [x \in 0 .. (WIDTH - 1) |-> "Empty"]]

\* Field::get / Field::get_mut: None outside the field
Field_get(field, p) ==
    LET x == as_positive_index(p.x)
        y == as_positive_index(p.y)
    IN  IF ~x.some THEN None
        ELSE IF ~y.some THEN None
        ELSE IF y.val \notin DOMAIN field THEN None
        ELSE IF x.val \notin DOMAIN field[y.val] THEN None
        ELSE Some(field[y.val][x.val])

\* ------------------------------------------------------------------------
\* Placement and collision (field_under_agent_control.rs)
\* ------------------------------------------------------------------------
\* the closure of is_arrangeable as it would be if a cell outside the field
\* were ignored
is_empty_cell_of_ignoring_outside(field, p) ==
    \E c \in {Field_get(field, p)} : IF c.some THEN is_empty(c.val) ELSE TRUE

\* is_arrangeable, the closure of all(): the cell of the field at p is there
\* and empty
is_empty_cell_of(field, p) ==
    \E c \in {Field_get(field, p)} : IF c.some THEN is_empty(c.val) ELSE FALSE

\* the all() of is_arrangeable as it would be if the last occupied cell of the
\* block were not looked at
all_cells_arrangeable_but_last(field, s, diff) ==
    \A i \in 1 .. (Len(s) - 1) : is_empty_cell_of(field, pos_add(s[i].pos, diff))

\* is_arrangeable, the all() over the pairs s moved by diff
all_cells_arrangeable(field, s, diff) ==
    \A i \in 1 .. Len(s) : is_empty_cell_of(field, pos_add(s[i].pos, diff))

\* is_arrangeable: every occupied cell of the block, moved by block_left_top,
\* is a cell of the field (get is Some) and that cell is empty
is_arrangeable(field, block, block_left_top) ==
    all_cells_arrangeable(field, iter_pos_and_occupied_cell(block),
                          pos_sub(block_left_top, origin))

\* the anchors origin + below(y) + right(x), y outer and x inner
appearance_grid(ys, xs) ==
    [k \in 1 .. (Len(ys) * Len(xs)) |->
        pos_add(pos_add(origin, below(ys[((k - 1) \div Len(xs)) + 1])),
                right(xs[((k - 1) % Len(xs)) + 1]))]

\* Shake::default().take(n).map(|x| x + x_mid - x_shift)
appearance_xs(sh, block) ==
    [i \in 1 .. Len(sh) |-> sh[i] + (WIDTH \div 2) - (cell_table_size(block) \div 2)]

\* the anchors find_block_appearance_pos tries, in the order it tries them
appearance_candidates(field, block) ==
    LET shift_max == cell_table_size(block) \div 2
    IN  appearance_grid([i \in 1 .. (2 * shift_max) |-> i - 1 - shift_max],
                        appearance_xs(Shake_take(Shake_new, 3), block))

\* the search as it would be if the first position were taken without asking
\* is_arrangeable
first_candidate_unchecked(field, block, cands, k) ==
    IF k > Len(cands) THEN None ELSE Some(cands[k])

RECURSIVE first_arrangeable(_, _, _, _)
\* the first position of cands[k..] at which the block is arrangeable
first_arrangeable(field, block, cands, k) ==
    IF k > Len(cands) THEN None
    ELSE IF is_arrangeable(field, block, cands[k]) THEN Some(cands[k])
    ELSE first_arrangeable(field, block, cands, k + 1)

\* find_block_appearance_pos: Some of the first anchor tried at which the block
\* is arrangeable, None when there is none
find_block_appearance_pos(field, block) ==
    first_arrangeable(field, block, appearance_candidates(field, block), 1)

RECURSIVE place_cells(_, _, _)
\* the loop of place_block from the k-th occupied cell on; acc = [field, assert_failed]
place_cells(items, k, acc) ==
    IF k > Len(items) THEN acc
    ELSE LET pos == items[k].pos
             c == Field_get(acc.field, pos)
         IN  IF c.some
             THEN place_cells(items, k + 1,
                    [field |-> [acc.field EXCEPT ![pos.y][pos.x] = items[k].cell],
                     assert_failed |-> acc.assert_failed \/ ~is_empty(c.val)])
             ELSE place_cells(items, k + 1, acc)

\* place_block as it would be if the cells were written where they stand in the
\* table of the block, not moved by its anchor
place_block_unshifted(controlled_block, field) ==
    place_cells(iter_pos_and_occupied_cell(controlled_block.block), 1,
                [field |-> field, assert_failed |-> FALSE])

\* place_block: [field |-> the field with the block written into it,
\*               assert_failed |-> the debug assertion c.is_empty() failed]
place_block(controlled_block, field) ==
    place_cells(ControlledBlock_iter_pos_and_occupied_cell(controlled_block), 1,
                [field |-> field, assert_failed |-> FALSE])

\* ------------------------------------------------------------------------
\* Block selection (single_play.rs) and the block queue (block_queue.rs)
\* ------------------------------------------------------------------------
QuadrupleBlockGenerator_shapes == <<"O", "J", "L", "Z", "S", "T", "I">>

QuadrupleBlockGenerator_new == [current_index |-> 0]

\* BlockSelector::generate_block with QuadrupleBlockGenerator::select_block_shape
\* and select_bomb: [block |-> the block, selector |-> the advanced generator]
generate_block(selector) ==
    LET shapes == QuadrupleBlockGenerator_shapes
        shape == shapes[(selector.current_index % Len(shapes)) + 1]
        bomb == BombTag_Single(0)
    IN  [block |-> Block_new(shape, "Above", bomb),
         selector |-> [current_index |-> (selector.current_index + 1) % Len(shapes)]]

RECURSIVE NextBlockQueue_fill_from(_, _)
\* NextBlockQueue::fill: [blocks, selector]
NextBlockQueue_fill_from(selector, n) ==
    IF n = 0 THEN [blocks |-> <<>>, selector |-> selector]
    ELSE LET g == generate_block(selector)
             rest == NextBlockQueue_fill_from(g.selector, n - 1)
         IN  [blocks |-> <<g.block>> \o rest.blocks, selector |-> rest.selector]

\* BlockQueue::new: [block_queue, selector]
BlockQueue_new(selector) ==
    LET filled == NextBlockQueue_fill_from(selector, NEXT_BLOCK_NUM)
        h == generate_block(filled.selector)
    IN  [block_queue |-> [next_blocks |-> filled.blocks, hold_block |-> h.block],
         selector |-> h.selector]

\* pop_and_fill as it would be if the blocks were not moved forward
pop_and_fill_without_shift(block_queue, selector) ==
    LET blocks == block_queue.next_blocks
        g == generate_block(selector)
    IN  [block |-> blocks[1],
         block_queue |-> [block_queue EXCEPT !.next_blocks[Len(blocks)] = g.block],
         selector |-> g.selector]

\* BlockQueue::pop_and_fill: [block, block_queue, selector]
pop_and_fill(block_queue, selector) ==
    LET blocks == block_queue.next_blocks
        g == generate_block(selector)
        shifted == [i \in 1 .. Len(blocks) |->
                      IF i < Len(blocks) THEN blocks[i + 1] ELSE g.block]
    IN  [block |-> blocks[1],
         block_queue |-> [block_queue EXCEPT !.next_blocks = shifted],
         selector |-> g.selector]

hold_block(block_queue) == block_queue.hold_block

\* swap_hold_block as it would be if the hold slot were left as it is
swap_hold_block_keeping_slot(block_queue, block) == block_queue

\* BlockQueue::swap_hold_block: the queue with the block in the hold slot
swap_hold_block(block_queue, block) == [block_queue EXCEPT !.hold_block = block]

\* ------------------------------------------------------------------------
\* FieldUnderAgentControl (field_under_agent_control.rs)
\* ------------------------------------------------------------------------
GameCommand == {"Right", "Left", "Down", "Drop",
                "RotateClockwise", "RotateUnticlockwise", "Hold"}

WaitNextCommand(state) ==
    [kind |-> "WaitNextCommand",
     field |-> state.field,
     controlled_block |-> Some(state.controlled_block),
     block_queue |-> state.block_queue,
     assert_failed |-> FALSE]

ProceedAnimation(placed, block_queue) ==
    [kind |-> "ProceedAnimation",
     field |-> placed.field,
     controlled_block |-> None,
     block_queue |-> block_queue,
     assert_failed |-> placed.assert_failed]

\* the shift of a translation command as it would be with Left and Right exchanged
command_shift_mirrored(command) ==
    CASE command = "Right" -> left(1)
      [] command = "Left"  -> right(1)
      [] command = "Down"  -> below(1)

\* apply_command, the shift of Right | Left | Down
command_shift(command) ==
    CASE command = "Right" -> right(1)
      [] command = "Left"  -> left(1)
      [] command = "Down"  -> below(1)

\* the translation arm as it would be if a blocked Down did not lock the block
apply_translation_without_lock(self, command) ==
    LET cb == self.controlled_block
        next_pos == pos_add(cb.left_top, command_shift(command))
    IN  IF is_arrangeable(self.field, cb.block, next_pos)
        THEN WaitNextCommand([self EXCEPT !.controlled_block =
                                 ControlledBlock_new(cb.block, next_pos)])
        ELSE WaitNextCommand(self)

\* apply_command, arm Right | Left | Down
apply_translation(self, command) ==
    LET cb == self.controlled_block
        next_pos == pos_add(cb.left_top, command_shift(command))
    IN  IF is_arrangeable(self.field, cb.block, next_pos)
        THEN WaitNextCommand([self EXCEPT !.controlled_block =
                                 ControlledBlock_new(cb.block, next_pos)])
        ELSE IF command = "Down"
             THEN ProceedAnimation(place_block(cb, self.field), self.block_queue)
             ELSE WaitNextCommand(self)

RECURSIVE drop_final_pos_one_further(_, _)
\* the loop of Drop as it would be if it stopped one cell too late
drop_final_pos_one_further(self, drop_shift) ==
    LET cb == self.controlled_block
        next_pos == pos_add(cb.left_top, below(drop_shift + 1))
    IN  IF is_arrangeable(self.field, cb.block, next_pos)
        THEN drop_final_pos_one_further(self, drop_shift + 1)
        ELSE pos_add(cb.left_top, below(drop_shift + 1))

RECURSIVE drop_final_pos(_, _)
\* apply_command, arm Drop: the loop that computes final_pos
drop_final_pos(self, drop_shift) ==
    LET cb == self.controlled_block
        next_pos == pos_add(cb.left_top, below(drop_shift + 1))
    IN  IF is_arrangeable(self.field, cb.block, next_pos)
        THEN drop_final_pos(self, drop_shift + 1)
        ELSE pos_add(cb.left_top, below(drop_shift))

\* apply_command, arm Drop
apply_drop(self) ==
    LET final_pos == drop_final_pos(self, 0)
        dropped_block == ControlledBlock_new(self.controlled_block.block, final_pos)
    IN  ProceedAnimation(place_block(dropped_block, self.field), self.block_queue)

\* the positions of a rotation as they would be with x in the outer loop and y
\* in the inner one
rotation_candidates_x_outer(self) ==
    LET shift_max == cell_table_size(self.controlled_block.block) \div 2
        ys == Shake_take_while_abs(Shake_new, shift_max)
        xs == Shake_take_while_abs(Shake_new, shift_max)
    IN  [k \in 1 .. (Len(ys) * Len(xs)) |->
            LET x == xs[((k - 1) \div Len(ys)) + 1]
                y == ys[((k - 1) % Len(ys)) + 1]
            IN  pos_add(pos_add(self.controlled_block.left_top, right(x)), below(y))]

\* the positions a rotation tries, in the order it tries them (y outer, x inner)
rotation_candidates(self) ==
    LET shift_max == cell_table_size(self.controlled_block.block) \div 2
        ys == Shake_take_while_abs(Shake_new, shift_max)
        xs == Shake_take_while_abs(Shake_new, shift_max)
    IN  [k \in 1 .. (Len(ys) * Len(xs)) |->
            LET y == ys[((k - 1) \div Len(xs)) + 1]
                x == xs[((k - 1) % Len(xs)) + 1]
            IN  pos_add(pos_add(self.controlled_block.left_top, right(x)), below(y))]

\* the end of the rotation arm as it would be if the rotated block were taken
\* where it stands
rotation_result_unchecked(self, rotated_block, found) ==
    WaitNextCommand([self EXCEPT !.controlled_block =
                        ControlledBlock_new(rotated_block, self.controlled_block.left_top)])

\* apply_command, arm RotateClockwise | RotateUnticlockwise: the rotated block
\* at the position found, or the state as it is
rotation_result(self, rotated_block, found) ==
    IF found.some
    THEN WaitNextCommand([self EXCEPT !.controlled_block =
                             ControlledBlock_new(rotated_block, found.val)])
    ELSE WaitNextCommand(self)

\* apply_command, arm RotateClockwise | RotateUnticlockwise: the search
rotate_and_shake(self, rotated_block) ==
    rotation_result(self, rotated_block,
        first_arrangeable(self.field, rotated_block, rotation_candidates(self), 1))

\* apply_command, arm RotateClockwise | RotateUnticlockwise
apply_rotation(self, command) ==
    rotate_and_shake(self, IF command = "RotateClockwise"
                           THEN rotate_clockwise(self.controlled_block.block)
                           ELSE rotate_unticlockwise(self.controlled_block.block))

\* apply_command, arm Hold: the swap when the held block has a place
hold_result(self, popped_block, found) ==
    IF found.some
    THEN WaitNextCommand(
            [self EXCEPT
                !.block_queue = swap_hold_block(self.block_queue,
                                                self.controlled_block.block),
                !.controlled_block = ControlledBlock_new(popped_block, found.val)])
    ELSE WaitNextCommand(self)

\* apply_command, arm Hold
apply_hold(self) ==
    hold_result(self, hold_block(self.block_queue),
                find_block_appearance_pos(self.field, hold_block(self.block_queue)))

\* FieldUnderAgentControl::apply_command
apply_command(self, command) ==
    CASE command \in {"Right", "Left", "Down"} -> apply_translation(self, command)
      [] command = "Drop" -> apply_drop(self)
      [] command \in {"RotateClockwise", "RotateUnticlockwise"} ->
            apply_rotation(self, command)
      [] command = "Hold" -> apply_hold(self)

\* FieldUnderAgentControl::new, the match on the position found
new_result(field, p, pos) ==
    IF pos.some
    THEN Some([field |-> field,
               controlled_block |-> ControlledBlock_new(p.block, pos.val),
               block_queue |-> p.block_queue,
               selector |-> p.selector])
    ELSE None

\* FieldUnderAgentControl::new: None, or Some of the new state and the advanced selector
FieldUnderAgentControl_new(field, block_queue, selector) ==
    new_result(field, pop_and_fill(block_queue, selector),
               find_block_appearance_pos(field, pop_and_fill(block_queue, selector).block))


\* ------------------------------------------------------------------------
\* AgentField (agent_field.rs): [field, current_block, current_block_pos,
\* next_blocks, hold_block]; every operation returns [state, result]
\* ------------------------------------------------------------------------
\* OperationResult::Done with the state returned
OperationResult_Done(state) == [state |-> state, result |-> "Done"]

\* OperationResult::Stay with the state returned
OperationResult_Stay(state) == [state |-> state, result |-> "Stay"]

\* agent_field.rs' find_block_appearance_pos: y in -shift_max..0 outer, x in
\* Shake.map(|x| x + width / 2).take(width) inner
AgentField_find_block_appearance_pos(field, block) ==
    LET shift_max == cell_table_size(block) \div 2
        sh == Shake_take(Shake_new, WIDTH)
        cands == appearance_grid([i \in 1 .. shift_max |-> i - 1 - shift_max],
                                 [i \in 1 .. Len(sh) |-> sh[i] + (WIDTH \div 2)])
    IN  first_arrangeable(field, block, cands, 1)

\* AgentField::new: [state, selector, panicked]; the unwrap of a position not
\* found panics
AgentField_new(selector) ==
    LET g == generate_block(selector)
        found == AgentField_find_block_appearance_pos(Field_empty, g.block)
        filled == NextBlockQueue_fill_from(g.selector, NEXT_BLOCK_NUM)
        h == generate_block(filled.selector)
    IN  [state |-> [field |-> Field_empty,
                    current_block |-> g.block,
                    current_block_pos |-> IF found.some THEN found.val ELSE origin,
                    next_blocks |-> filled.blocks,
                    hold_block |-> h.block],
         selector |-> h.selector,
         panicked |-> ~found.some]

\* move_block_to_left | move_block_to_right | move_block_down, shift being
\* left(1) | right(1) | below(1)
AgentField_move_block(self, shift) ==
    LET next_pos == pos_add(self.current_block_pos, shift)
    IN  IF is_arrangeable(self.field, self.current_block, next_pos)
        THEN OperationResult_Done([self EXCEPT !.current_block_pos = next_pos])
        ELSE OperationResult_Stay(self)

RECURSIVE AgentField_drop_shift(_, _)
\* drop_block: the loop that computes drop_shift
AgentField_drop_shift(self, drop_shift) ==
    IF is_arrangeable(self.field, self.current_block,
                      pos_add(self.current_block_pos, below(drop_shift + 1)))
    THEN AgentField_drop_shift(self, drop_shift + 1)
    ELSE drop_shift

\* AgentField::drop_block
AgentField_drop_block(self) ==
    LET next_pos == pos_add(self.current_block_pos,
                            below(AgentField_drop_shift(self, 0)))
    IN  OperationResult_Done([self EXCEPT !.current_block_pos = next_pos])

\* rotate_block_clockwise | rotate_block_unticlockwise, rotated_block being
\* the block turned
AgentField_rotate_block(self, rotated_block) ==
    LET cands == rotation_candidates(
                    [controlled_block |-> ControlledBlock_new(self.current_block,
                                                              self.current_block_pos)])
        found == first_arrangeable(self.field, rotated_block, cands, 1)
    IN  IF found.some
        THEN OperationResult_Done([self EXCEPT !.current_block = rotated_block,
                                               !.current_block_pos = found.val])
        ELSE OperationResult_Stay(self)

\* AgentField::hold_block
AgentField_hold_block(self) ==
    LET found == AgentField_find_block_appearance_pos(self.field, self.hold_block)
    IN  IF found.some
        THEN OperationResult_Done([self EXCEPT !.current_block = self.hold_block,
                                               !.current_block_pos = found.val,
                                               !.hold_block = self.current_block])
        ELSE OperationResult_Stay(self)

\* the operations of AgentField
AgentField_operations ==
    {"move_block_to_left", "move_block_to_right", "move_block_down",
     "drop_block", "rotate_block_clockwise", "rotate_block_unticlockwise",
     "hold_block"}

\* the operation of that name applied to self
AgentField_operate(self, operation) ==
    CASE operation = "move_block_to_left"  -> AgentField_move_block(self, left(1))
      [] operation = "move_block_to_right" -> AgentField_move_block(self, right(1))
      [] operation = "move_block_down"  -> AgentField_move_block(self, below(1))
      [] operation = "drop_block" -> AgentField_drop_block(self)
      [] operation = "rotate_block_clockwise" ->
            AgentField_rotate_block(self, rotate_clockwise(self.current_block))
      [] operation = "rotate_block_unticlockwise" ->
            AgentField_rotate_block(self, rotate_unticlockwise(self.current_block))
      [] operation = "hold_block" -> AgentField_hold_block(self)
\* ------------------------------------------------------------------------
\* Animations (animation.rs, animation/*.rs)
\* ------------------------------------------------------------------------
AnimationFrame_with_frame_count(end) == [current |-> 0, end |-> end]

\* AnimationFrame::wait_next as it would be if every animation ended at its
\* first tick
AnimationFrame_wait_next_ending_at_once(frame) == None

\* AnimationFrame::wait_next as it would be if it ended one frame later
AnimationFrame_wait_next_one_more(frame) ==
    IF frame.current > frame.end THEN None
    ELSE Some([current |-> frame.current + 1, end |-> frame.end])

\* AnimationFrame::wait_next: None when the animation ends, else the next frame
AnimationFrame_wait_next(frame) ==
    IF frame.current = frame.end THEN None
    ELSE Some([current |-> frame.current + 1, end |-> frame.end])

NoFrame == AnimationFrame_with_frame_count(0)

\* FieldRow::cell_refs is used by the animations but its body is not part of
\* the sources: the cells of row y with their positions, from the left
cell_refs(field, y) ==
    [i \in 1 .. WIDTH |-> [pos |-> Pos(i - 1, y), cell |-> field[y][i - 1]]]

\* the scan of FullRow::new as it would be if a row counted as soon as one of
\* its cells is non-empty
scan_rows_with_a_cell(field) ==
    LET all == [i \in 1 .. HEIGHT |-> i - 1]
    IN  SelectSeq(all, LAMBDA y : \E x \in DOMAIN field[y] : ~is_empty(field[y][x]))

\* FullRow::new, the rows whose cells are all non-empty, from the top
scan_filled_row_ys(field) ==
    LET all == [i \in 1 .. HEIGHT |-> i - 1]
    IN  SelectSeq(all, LAMBDA y : \A x \in DOMAIN field[y] : ~is_empty(field[y][x]))

\* FullRow::new as it would be if the previous rows were not looked at
FullRow_new_without_previous(field, previous_filled_rows) ==
    LET filled == scan_filled_row_ys(field)
    IN  [filled_row_ys |-> filled,
         frame |-> AnimationFrame_with_frame_count(
                       (WIDTH \div 2) * Len(filled) + (IF filled = <<>> THEN 0 ELSE 5))]

\* FullRow::new: [filled_row_ys, frame]
FullRow_new(field, previous_filled_rows) ==
    LET scanned == scan_filled_row_ys(field)
        filled == IF scanned = previous_filled_rows THEN <<>> ELSE scanned
        count_per_line == WIDTH \div 2
        additional_count == IF filled = <<>> THEN 0 ELSE 5
    IN  [filled_row_ys |-> filled,
         frame |-> AnimationFrame_with_frame_count(
                       count_per_line * Len(filled) + additional_count)]

\* Iterator::collect into a HashSet
collect(iter) == {pos : pos \in iter}

ChainCounter_new == 0

\* ChainCounter::next as it would be if it did not count
ChainCounter_next_not_counting(chain) == chain

\* ChainCounter::next as it would be if it counted down
ChainCounter_next_counting_down(chain) == chain - 1

ChainCounter_next(chain) == chain + 1

\* ExplosionPower::new as it would be if it counted one more chain
ExplosionPower_new_of_the_next_chain(filled_row_count, chain_counter) ==
    filled_row_count + chain_counter + 1

ExplosionPower_new(filled_row_count, chain_counter) == filled_row_count + chain_counter

is_explodable(cell) == cell \in {"Bomb", "BigBombUpperLeft"}

\* RegionOfInterest::iter_pos, as the set of the positions it yields
roi_iter_pos(left_top, size) ==
    {pos_add(left_top, [x |-> dx, y |-> dy]) :
        dx \in 0 .. (size.x - 1), dy \in 0 .. (size.y - 1)}

\* bomb_explosion_area as it would be if the powers beyond 12 fell back to the
\* area of power 4
bomb_explosion_area_falling_back(explosion_power, pos) ==
    LET r == CASE explosion_power = 1 -> <<3, 0>>
               [] explosion_power = 2 -> <<3, 1>>
               [] explosion_power = 3 -> <<3, 2>>
               [] explosion_power \in {5, 6} -> <<4, 4>>
               [] explosion_power \in {7, 8} -> <<5, 5>>
               [] explosion_power \in {9, 10} -> <<6, 6>>
               [] explosion_power \in {11, 12} -> <<7, 7>>
               [] OTHER -> <<3, 3>>
        x == r[1]
        y == r[2]
    IN  [left_top |-> pos_add(pos_add(pos, left(x)), above(y)),
         size |-> [x |-> x * 2 + 1, y |-> y * 2 + 1]]

bomb_explosion_area(explosion_power, pos) ==
    LET r == CASE explosion_power = 1 -> <<3, 0>>
               [] explosion_power = 2 -> <<3, 1>>
               [] explosion_power = 3 -> <<3, 2>>
               [] explosion_power = 4 -> <<3, 3>>
               [] explosion_power \in {5, 6} -> <<4, 4>>
               [] explosion_power \in {7, 8} -> <<5, 5>>
               [] explosion_power \in {9, 10} -> <<6, 6>>
               [] explosion_power \in {11, 12} -> <<7, 7>>
               [] OTHER -> <<8, 8>>
        x == r[1]
        y == r[2]
    IN  [left_top |-> pos_add(pos_add(pos, left(x)), above(y)),
         size |-> [x |-> x * 2 + 1, y |-> y * 2 + 1]]

big_bomb_explosion_area(big_bomb_upper_left_pos) ==
    [left_top |-> pos_add(pos_add(big_bomb_upper_left_pos, left(4)), above(4)),
     size |-> [x |-> 10, y |-> 10]]

\* explosion_area: Option<RegionOfInterest>
explosion_area(explosion_power, cell, pos) ==
    CASE cell = "Bomb" -> Some(bomb_explosion_area(explosion_power, pos))
      [] cell = "BigBombUpperLeft" -> Some(big_bomb_explosion_area(pos))
      [] OTHER -> None

\* the positions of an Option<RegionOfInterest>: filter_map, then iter_pos
roi_of_area(area) ==
    IF area.some THEN roi_iter_pos(area.val.left_top, area.val.size) ELSE {}

scan_exploded_cell_positions(field, explodable_center_cell_positions, explosion_power) ==
    collect(UNION {roi_of_area(explosion_area(explosion_power, field[pos.y][pos.x], pos)) :
                       pos \in explodable_center_cell_positions})

\* HashSet::symmetric_difference
symmetric_difference(a, b) == collect((a \ b) \cup (b \ a))

\* scan_caught_explosion_cell_positions, the closure of filter()
is_explodable_cell_of(field, pos) ==
    \E c \in {Field_get(field, pos)} : IF c.some THEN is_explodable(c.val) ELSE FALSE

scan_caught_explosion_cell_positions(field, explodable_center_cell_positions, exploded_cell_positions) ==
    {pos \in symmetric_difference(explodable_center_cell_positions,
                                   exploded_cell_positions) :
        is_explodable_cell_of(field, pos)}

\* the loops of Explosion::wait_next as they would be if they emptied the whole
\* row of every exploded cell
clear_exploded_rows(field, exploded_cell_positions) ==
    [y \in DOMAIN field |-> [x \in DOMAIN field[y] |->
        IF \E pos \in exploded_cell_positions : pos.y = y THEN "Empty" ELSE field[y][x]]]

\* the loops of Explosion::wait_next that empty the exploded cells
clear_exploded(field, exploded_cell_positions) ==
    [y \in DOMAIN field |-> [x \in DOMAIN field[y] |->
        IF Pos(x, y) \in exploded_cell_positions THEN "Empty" ELSE field[y][x]]]

\* Explosion::try_init: the positions of the explodable cells of a row
explodable_positions(refs) ==
    {refs[i].pos : i \in {j \in 1 .. Len(refs) : is_explodable(refs[j].cell)}}

\* the centers of Explosion::try_init as they would be if the rows of the field
\* were not filtered by filled_rows
explodable_positions_of_every_row(field, filled_rows) ==
    collect(UNION {explodable_positions(cell_refs(field, y)) : y \in DOMAIN field})

\* the centers of Explosion::try_init as they would be if only the lowest of the
\* filled rows were looked at
explodable_positions_of_the_lowest_row(field, filled_rows) ==
    IF filled_rows = <<>> THEN {}
    ELSE collect(explodable_positions(cell_refs(field, filled_rows[Len(filled_rows)])))

\* Explosion::try_init: the explodable cells of the filled rows
explodable_center_cell_positions(field, filled_rows) ==
    collect(UNION {explodable_positions(cell_refs(field, y)) :
                       y \in {filled_rows[i] : i \in 1 .. Len(filled_rows)} \cap DOMAIN field})

\* Explosion::try_init, from the exploded cells on
try_init_result(field, filled_rows, current_chain, centers, exploded) ==
    IF exploded = {}
    THEN [kind |-> "Stay"]
    ELSE [kind |-> "Explodes",
          current_chain |-> current_chain,
          filled_row_count |-> Len(filled_rows),
          caught_bomb_positions |->
              scan_caught_explosion_cell_positions(field, centers, exploded),
          exploded_cell_positions |-> exploded,
          frame |-> AnimationFrame_with_frame_count(20)]

\* Explosion::try_init, from the centers on
try_init_exploded(field, filled_rows, current_chain, centers) ==
    try_init_result(field, filled_rows, current_chain, centers,
        scan_exploded_cell_positions(field, centers,
            ExplosionPower_new(Len(filled_rows), current_chain)))

\* Explosion::try_init: kind "Explodes" with the Explosion, or kind "Stay"
Explosion_try_init(field, filled_rows, current_chain) ==
    try_init_exploded(field, filled_rows, current_chain,
                      explodable_center_cell_positions(field, filled_rows))

NoExplosion ==
    [current_chain |-> 0, filled_row_count |-> 0,
     caught_bomb_positions |-> {}, exploded_cell_positions |-> {}]

\* the neighbours as they would be if scan_connection also went on diagonally
around_positions_with_diagonals(frontier) ==
    collect(UNION {{pos_add(p, [x |-> dx, y |-> dy]) : dx \in -1 .. 1, dy \in -1 .. 1} :
                       p \in frontier})

\* the four neighbours of the positions of a set
around_positions(frontier) ==
    collect(UNION {{pos_add(p, right(1)), pos_add(p, left(1)),
                    pos_add(p, below(1)), pos_add(p, above(1))} : p \in frontier})

\* scan_connection: the cell of the field at q is there and not empty
is_non_empty_cell_of(field, q) ==
    \E c \in {Field_get(field, q)} : IF c.some THEN ~is_empty(c.val) ELSE FALSE

RECURSIVE scan_connection(_, _, _)
\* scan_connection: the non-empty cells connected to the frontier cells
scan_connection(field, connected_positions, frontier) ==
    IF frontier = {} THEN connected_positions
    ELSE scan_connection(field, collect(connected_positions \cup frontier),
            {q \in around_positions(frontier) :
                /\ q \notin connected_positions
                /\ q \notin frontier
                /\ is_non_empty_cell_of(field, q)})

\* the cells of a row from which scan_connection goes on: the non-empty ones
non_empty_positions(refs) ==
    {refs[i].pos : i \in {j \in 1 .. Len(refs) : ~is_empty(refs[j].cell)}}

scan_connection_on_ground(field) ==
    scan_connection(field, {}, non_empty_positions(cell_refs(field, HEIGHT - 1)))

\* every position of the field
Field_positions == {Pos(x, y) : x \in 0 .. (WIDTH - 1), y \in 0 .. (HEIGHT - 1)}

\* scan_floating_cell_positions: the non-empty cells that are not on the ground
floating_of(field, on_ground_cell_positions) ==
    {pos \in Field_positions :
        ~is_empty(field[pos.y][pos.x]) /\ pos \notin on_ground_cell_positions}

\* DropCell::scan_floating_cell_positions as it would be if it saw only the
\* floating cells that stand on a cell
scan_floating_cell_positions_standing(field) ==
    {pos \in floating_of(field, scan_connection_on_ground(field)) :
        pos.y + 1 <= HEIGHT - 1 /\ ~is_empty(field[pos.y + 1][pos.x])}

scan_floating_cell_positions(field) ==
    floating_of(field, scan_connection_on_ground(field))

\* the body of the loop as it would be if the cell moved were not emptied
drop_cell_at_leaving_the_source(pos, acc) ==
    IF ~Field_get(acc.field, pos_add(pos, below(1))).some \/ is_empty(acc.field[pos.y][pos.x])
    THEN [field |-> acc.field, panicked |-> TRUE]
    ELSE [field |-> [acc.field EXCEPT ![pos.y + 1][pos.x] = acc.field[pos.y][pos.x]],
          panicked |-> acc.panicked]

\* DropCell::wait_next, the body of the loop for one floating cell
drop_cell_at(pos, acc) ==
    IF ~Field_get(acc.field, pos_add(pos, below(1))).some \/ is_empty(acc.field[pos.y][pos.x])
    THEN [field |-> acc.field, panicked |-> TRUE]
    ELSE [field |-> [acc.field EXCEPT ![pos.y + 1][pos.x] = acc.field[pos.y][pos.x],
                                      ![pos.y][pos.x] = "Empty"],
          panicked |-> acc.panicked]

RECURSIVE drop_floating_row(_, _, _, _)
\* DropCell::wait_next, the loop over the floating cells of row y, from column x on
drop_floating_row(floating, y, x, acc) ==
    IF x >= WIDTH \/ acc.panicked THEN acc
    ELSE IF Pos(x, y) \in floating
    THEN drop_floating_row(floating, y, x + 1, drop_cell_at(Pos(x, y), acc))
    ELSE drop_floating_row(floating, y, x + 1, acc)

RECURSIVE drop_lowest_floating_row(_, _, _)
\* the loop of DropCell::wait_next as it would be if it moved the floating
\* cells of the lowest row that has any, and no others
drop_lowest_floating_row(floating, y, acc) ==
    IF y < 0 \/ acc.panicked THEN acc
    ELSE IF \E x \in 0 .. (WIDTH - 1) : Pos(x, y) \in floating
    THEN drop_floating_row(floating, y, 0, acc)
    ELSE drop_lowest_floating_row(floating, y - 1, acc)

RECURSIVE drop_floating_rows_top_first(_, _, _)
\* the loop of DropCell::wait_next as it would be if it moved the floating
\* cells of the top row first
drop_floating_rows_top_first(floating, y, acc) ==
    IF y < 0 \/ acc.panicked THEN acc
    ELSE drop_floating_rows_top_first(floating, y - 1,
             drop_floating_row(floating, (HEIGHT - 1) - y, 0, acc))

RECURSIVE drop_floating_rows(_, _, _)
\* DropCell::wait_next, the loop that moves every floating cell one cell down,
\* row y and then the rows above it; acc = [field, panicked]
drop_floating_rows(floating, y, acc) ==
    IF y < 0 \/ acc.panicked THEN acc
    ELSE drop_floating_rows(floating, y - 1, drop_floating_row(floating, y, 0, acc))
RECURSIVE insert_sorted(_, _)
\* one step of the insertion that sorts a list of row coordinates
insert_sorted(s, v) ==
    IF s = <<>> THEN <<v>>
    ELSE IF v <= Head(s) THEN <<v>> \o s
    ELSE <<Head(s)>> \o insert_sorted(Tail(s), v)

RECURSIVE sort(_)
sort(s) == IF s = <<>> THEN <<>> ELSE insert_sorted(sort(Tail(s)), Head(s))

RECURSIVE dedup(_)
\* Vec::dedup: consecutive repeats removed
dedup(s) ==
    IF Len(s) <= 1 THEN s
    ELSE IF s[1] = s[2] THEN dedup(Tail(s))
    ELSE <<s[1]>> \o dedup(Tail(s))

\* the end of the turn as it would be with the rows only sorted
sort_without_dedup(s) == sort(s)

\* execute_game: filled_row_ys.sort(); filled_row_ys.dedup()
sort_dedup(s) == dedup(sort(s))

\* ------------------------------------------------------------------------
\* Counter<T, R> (data_type/counter.rs), T = i8; a range is
\* [kind, start, end], kind "Range" (start..end), "RangeInclusive"
\* (start..=end) or "RangeFrom" (start..)
\* ------------------------------------------------------------------------
\* self.range.contains(&v)
RangeBounds_contains(range, v) ==
    CASE range.kind = "Range" -> range.start <= v /\ v < range.end
      [] range.kind = "RangeInclusive" -> range.start <= v /\ v <= range.end
      [] range.kind = "RangeFrom" -> range.start <= v

\* Counter::new for a range with an included start
Counter_new(range) == [current |-> range.start, range |-> range]

\* Counter::current
Counter_current(self) == self.current

\* Counter::is_ended, next being self.current + T::one() as the build computed it
Counter_is_ended(self, next) == ~RangeBounds_contains(self.range, next)

\* Counter::next as it would be if the range were not looked at
Counter_next_without_end(self, next) ==
    [self |-> [self EXCEPT !.current = next], result |-> "Some"]

\* Counter::next, next being self.current + T::one() as the build computed it:
\* [self, result]
Counter_next(self, next) ==
    IF RangeBounds_contains(self.range, next)
    THEN [self |-> [self EXCEPT !.current = next], result |-> "Some"]
    ELSE [self |-> self, result |-> "None"]
\* ------------------------------------------------------------------------
\* The states execute_game starts a turn in
\* ------------------------------------------------------------------------
\* walls from row 6 down, a well one cell wide in column 5 and a closed
\* cavity one cell wide in column 8, rows 12 to 15
well_cell(x, y) ==
    IF y >= 6 /\ x # 5 /\ ~(x = 8 /\ y \in 12 .. 15)
    THEN IF <<x, y>> \in {<<3, 18>>, <<8, 10>>, <<1, 7>>} THEN "Bomb" ELSE "Normal"
    ELSE "Empty"

\* column 6 filled to the top, columns 3..5 filled from row 2 down
tower_cell(x, y) ==
    IF x = 6 \/ (x \in 3 .. 5 /\ y >= 2)
    THEN IF <<x, y>> \in {<<6, 3>>, <<4, 12>>} THEN "Bomb" ELSE "Normal"
    ELSE "Empty"

Field_well ==
    [y \in 0 .. (HEIGHT - 1) |-> [x \in 0 .. (WIDTH - 1) |-> well_cell(x, y)]]

Field_tower ==
    [y \in 0 .. (HEIGHT - 1) |-> [x \in 0 .. (WIDTH - 1) |-> tower_cell(x, y)]]

\* the top of the loop of execute_game in the middle of a game: the queue holds
\* the blocks the generator made from index s on, the hold slot an earlier block
MidGame(f, s, hold) ==
    LET filled == NextBlockQueue_fill_from([current_index |-> s], NEXT_BLOCK_NUM)
    IN  [field |-> f,
         block_queue |-> [next_blocks |-> filled.blocks, hold_block |-> hold],
         selector |-> filled.selector,
         filled_row_ys |-> <<>>]

\* execute_game before its loop: the empty field and a fresh queue
GameStart ==
    LET q == BlockQueue_new(QuadrupleBlockGenerator_new)
    IN  [field |-> Field_empty,
         block_queue |-> q.block_queue,
         selector |-> q.selector,
         filled_row_ys |-> <<>>]

TurnStarts ==
    {GameStart,
     MidGame(Field_well, 6, Block_new("T", "Above", BombTag_Single(0))),
     MidGame(Field_tower, 0, Block_new("I", "Above", BombTag_Single(0)))}

\* ------------------------------------------------------------------------
\* State
\* ------------------------------------------------------------------------
VARIABLES
    pc,                      \* where execute_game (or the caller of a function) is
    field,                   \* Field
    controlled_block,        \* Option<ControlledBlock> of FieldUnderAgentControl
    block_queue,             \* BlockQueue
    selector,                \* QuadrupleBlockGenerator
    filled_row_ys,           \* execute_game: the full rows seen before
    explosion_chain,         \* execute_game: ChainCounter
    frame,                   \* AnimationFrame of the running animation
    ys,                      \* FullRow.filled_row_ys
    explosion,               \* Explosion (chain, row count, caught, exploded)
    floating_cell_positions, \* DropCell.floating_cell_positions
    turn,                    \* number of spawns so far
    prev,                    \* the FieldUnderAgentControl the last command was given to
    last_command,            \* the command last given to apply_command
    ret,                     \* the value a called function returned
    observed                 \* what the running animations were given and did

vars == <<pc, field, controlled_block, block_queue, selector, filled_row_ys,
          explosion_chain, frame, ys, explosion, floating_cell_positions,
          turn, prev, last_command, ret, observed>>

animation_vars == <<explosion_chain, frame, ys, explosion, floating_cell_positions>>

\* the record of the last command and of the last function call
history_vars == <<prev, last_command, ret>>

\* the record of the animations of the running resolution loop:
\*   field    the field the running FullRow or Explosion was made with
\* and, of the last Explosion of the turn and the DropCell after it,
\*   chain    the ChainCounter Explosion::try_init was given
\*   exploded the cells of the exploded sets of the waves of the Explosion so far
\*   centres  the centres of the waves of the Explosion so far
\*   waves    the number of waves of the Explosion that have ended
\*   steps    the number of steps of the DropCell that moved cells
NoObservation ==
    [field |-> <<>>, chain |-> 0, exploded |-> {}, centres |-> {}, waves |-> 0, steps |-> 0]

\* ------------------------------------------------------------------------
\* execute_game (single_play.rs)
\* ------------------------------------------------------------------------
Init ==
    \E start \in TurnStarts :
        /\ pc = "spawn"
        /\ field = start.field
        /\ controlled_block = None
        /\ block_queue = start.block_queue
        /\ selector = start.selector
        /\ filled_row_ys = start.filled_row_ys
        /\ explosion_chain = ChainCounter_new
        /\ frame = NoFrame
        /\ ys = <<>>
        /\ explosion = NoExplosion
        /\ floating_cell_positions = {}
        /\ turn = 0
        /\ prev = None
        /\ last_command = "none"
        /\ ret = None
        /\ observed = NoObservation

\* FieldUnderAgentControl::new at the top of the loop; None ends the game
Spawn ==
    /\ pc = "spawn"
    /\ \E r \in {FieldUnderAgentControl_new(field, block_queue, selector)} :
           IF r.some
           THEN /\ pc' = "control"
                /\ controlled_block' = Some(r.val.controlled_block)
                /\ block_queue' = r.val.block_queue
                /\ selector' = r.val.selector
                /\ turn' = turn + 1
           ELSE /\ pc' = "game_over"
                /\ selector' = pop_and_fill(block_queue, selector).selector
                /\ UNCHANGED <<controlled_block, block_queue, turn>>
    /\ UNCHANGED <<field, filled_row_ys, observed>>
    /\ UNCHANGED animation_vars
    /\ UNCHANGED history_vars

\* the FieldUnderAgentControl execute_game holds in agent_field
self_of_game ==
    [field |-> field, controlled_block |-> controlled_block.val, block_queue |-> block_queue]

\* agent_field.apply_command(input()) in the inner loop
Command(command) ==
    /\ pc = "control"
    /\ turn <= MaxTurns
    /\ prev' = Some(self_of_game)
    /\ last_command' = command
    /\ \E r \in {apply_command(self_of_game, command)} :
           IF r.assert_failed
           THEN /\ pc' = "panicked"
                /\ UNCHANGED <<field, controlled_block, block_queue, frame>>
           ELSE /\ field' = r.field
                /\ controlled_block' = r.controlled_block
                /\ block_queue' = r.block_queue
                /\ IF r.kind = "WaitNextCommand"
                   THEN pc' = "control" /\ UNCHANGED frame
                   ELSE pc' = "place_block" /\ frame' = AnimationFrame_with_frame_count(5)
    /\ UNCHANGED <<selector, filled_row_ys, explosion_chain, ys, explosion,
                   floating_cell_positions, turn, ret, observed>>

\* the entry of the resolution loop as it would be if no FullRow were made and
\* the loop were left for the next spawn
LeaveForSpawn(f, previous) ==
    /\ pc' = "spawn"
    /\ ys' = <<>>
    /\ frame' = NoFrame
    /\ observed' = NoObservation

\* the entry of the resolution loop as it would be if, after a DropCell that
\* moved no cell, the loop were left for the next spawn
EnterFullRow_if_cells_moved(f, previous) ==
    IF pc = "drop_cell" /\ observed.steps = 0
    THEN LeaveForSpawn(f, previous)
    ELSE LET fr == FullRow_new(f, previous)
         IN  /\ pc' = "full_row"
             /\ ys' = fr.filled_row_ys
             /\ frame' = fr.frame
             /\ observed' = [observed EXCEPT !.field = f]

\* the head of the resolution loop: FullRow::new(field, &filled_row_ys)
EnterFullRow(f, previous) ==
    LET fr == FullRow_new(f, previous)
    IN  /\ pc' = "full_row"
        /\ ys' = fr.filled_row_ys
        /\ frame' = fr.frame
        /\ observed' = [observed EXCEPT !.field = f]

\* PlaceBlock::wait_next; when it finishes the resolution loop starts
PlaceBlock_wait_next ==
    /\ pc = "place_block"
    /\ LET next == AnimationFrame_wait_next(frame)
       IN  IF next.some
           THEN /\ frame' = next.val
                /\ UNCHANGED <<pc, ys, explosion_chain, observed>>
           ELSE /\ explosion_chain' = ChainCounter_new
                /\ EnterFullRow(field, filled_row_ys)
    /\ prev' = None
    /\ last_command' = "none"
    /\ UNCHANGED <<field, controlled_block, block_queue, selector, filled_row_ys,
                   explosion, floating_cell_positions, turn, ret>>

\* FullRow::wait_next; when it finishes, Explosion::try_init decides how to go on
FullRow_wait_next ==
    /\ pc = "full_row"
    /\ LET next == AnimationFrame_wait_next(frame)
       IN  IF next.some
           THEN /\ frame' = next.val
                /\ UNCHANGED <<pc, ys, explosion, filled_row_ys, observed>>
           ELSE \E init \in {Explosion_try_init(field, ys, explosion_chain)} :
                    IF init.kind = "Explodes"
                    THEN /\ pc' = "explosion"
                         /\ explosion' =
                              [current_chain |-> init.current_chain,
                               filled_row_count |-> init.filled_row_count,
                               caught_bomb_positions |-> init.caught_bomb_positions,
                               exploded_cell_positions |-> init.exploded_cell_positions]
                         /\ frame' = init.frame
                         /\ observed' = [NoObservation EXCEPT
                                            !.field = field,
                                            !.chain = explosion_chain,
                                            !.exploded = init.exploded_cell_positions,
                                            !.centres =
                                                explodable_center_cell_positions(field, ys)]
                         /\ UNCHANGED <<ys, filled_row_ys>>
                    ELSE /\ pc' = "spawn"
                         /\ filled_row_ys' = sort_dedup(filled_row_ys \o ys)
                         /\ frame' = NoFrame
                         /\ ys' = <<>>
                         /\ observed' = NoObservation
                         /\ UNCHANGED explosion
    /\ UNCHANGED <<field, controlled_block, block_queue, selector, explosion_chain,
                   floating_cell_positions, turn>>
    /\ UNCHANGED history_vars

\* Explosion::wait_next; when it finishes, DropCell::new scans the floating cells
Explosion_wait_next ==
    /\ pc = "explosion"
    /\ LET next == AnimationFrame_wait_next(frame)
       IN  IF next.some
           THEN /\ frame' = next.val
                /\ UNCHANGED <<pc, field, explosion, floating_cell_positions, observed>>
           ELSE IF explosion.caught_bomb_positions = {}
           THEN LET cleared == clear_exploded(field, explosion.exploded_cell_positions)
                IN  /\ pc' = "drop_cell"
                    /\ field' = cleared
                    /\ explosion' = [explosion EXCEPT
                                        !.current_chain = ChainCounter_next(@)]
                    /\ floating_cell_positions' = scan_floating_cell_positions(cleared)
                    /\ frame' = NoFrame
                    /\ observed' = [observed EXCEPT !.waves = @ + 1]
           ELSE LET explosion_power == ExplosionPower_new(explosion.filled_row_count,
                                                          explosion.current_chain)
                    centers == explosion.caught_bomb_positions
                    exploded == scan_exploded_cell_positions(field, centers,
                                                             explosion_power)
                    caught == scan_caught_explosion_cell_positions(field, centers,
                                                                   exploded)
                IN  /\ field' = clear_exploded(field, explosion.exploded_cell_positions)
                    /\ explosion' = [explosion EXCEPT
                                        !.caught_bomb_positions = caught,
                                        !.exploded_cell_positions = exploded]
                    /\ frame' = AnimationFrame_with_frame_count(20)
                    /\ observed' = [observed EXCEPT !.waves = @ + 1,
                                                    !.exploded = @ \cup exploded,
                                                    !.centres = @ \cup centers]
                    /\ UNCHANGED <<pc, floating_cell_positions>>
    /\ UNCHANGED <<controlled_block, block_queue, selector, filled_row_ys,
                   explosion_chain, ys, turn>>
    /\ UNCHANGED history_vars

\* DropCell::wait_next; when it finishes the resolution loop goes round
DropCell_wait_next ==
    /\ pc = "drop_cell"
    /\ IF floating_cell_positions = {}
       THEN /\ filled_row_ys' = <<>>
            /\ explosion_chain' = explosion.current_chain
            /\ explosion' = NoExplosion
            /\ EnterFullRow(field, <<>>)
            /\ UNCHANGED <<field, floating_cell_positions>>
       ELSE \E d \in {drop_floating_rows(floating_cell_positions, HEIGHT - 1,
                                           [field |-> field, panicked |-> FALSE])} :
                IF d.panicked
                THEN /\ pc' = "drop_cell_panicked"
                     /\ UNCHANGED <<field, floating_cell_positions, filled_row_ys,
                                    explosion_chain, explosion, ys, frame, observed>>
                ELSE /\ field' = d.field
                     /\ floating_cell_positions' = scan_floating_cell_positions(d.field)
                     /\ observed' = [observed EXCEPT !.steps = @ + 1]
                     /\ UNCHANGED <<pc, filled_row_ys, explosion_chain, explosion,
                                    ys, frame>>
    /\ UNCHANGED <<controlled_block, block_queue, selector, turn>>
    /\ UNCHANGED history_vars

Next ==
    \/ Spawn
    \/ \E command \in GameCommand : Command(command)
    \/ PlaceBlock_wait_next
    \/ FullRow_wait_next
    \/ Explosion_wait_next
    \/ DropCell_wait_next

Spec == Init /\ [][Next]_vars

\* ------------------------------------------------------------------------
\* Calls of is_arrangeable and find_block_appearance_pos on their own
\* ------------------------------------------------------------------------
Direction == {"Right", "Below", "Left", "Above"}

InputFields == {Field_empty, Field_well, Field_tower}

InputBlocks ==
    {Block_new(QuadrupleBlockGenerator_shapes[i], d, BombTag_Single(0)) :
        i \in 1 .. Len(QuadrupleBlockGenerator_shapes), d \in Direction}

\* anchors from a whole block table left of and above the field to one right of
\* and below it
InputAnchors ==
    {Pos(x, y) : x \in (0 - BLOCK_TABLE_SIZE) .. WIDTH, y \in (0 - BLOCK_TABLE_SIZE) .. HEIGHT}

InitPlace ==
    /\ pc \in {"call is_arrangeable", "call find_block_appearance_pos"}
    /\ field \in InputFields
    /\ \E block \in InputBlocks :
       \E block_left_top \in IF pc = "call is_arrangeable" THEN InputAnchors ELSE {origin} :
           controlled_block = Some(ControlledBlock_new(block, block_left_top))
    /\ block_queue = GameStart.block_queue
    /\ selector = GameStart.selector
    /\ filled_row_ys = <<>>
    /\ explosion_chain = ChainCounter_new
    /\ frame = NoFrame
    /\ ys = <<>>
    /\ explosion = NoExplosion
    /\ floating_cell_positions = {}
    /\ turn = 0
    /\ prev = None
    /\ last_command = "none"
    /\ ret = None
    /\ observed = NoObservation

\* is_arrangeable(&field, &block, block_left_top)
Call_is_arrangeable ==
    /\ pc = "call is_arrangeable"
    /\ pc' = "is_arrangeable returned"
    /\ ret' = Some(is_arrangeable(field, controlled_block.val.block,
                                  controlled_block.val.left_top))
    /\ UNCHANGED <<field, controlled_block, block_queue, selector, filled_row_ys,
                   turn, prev, last_command, observed>>
    /\ UNCHANGED animation_vars

\* find_block_appearance_pos(&field, &block)
Call_find_block_appearance_pos ==
    /\ pc = "call find_block_appearance_pos"
    /\ pc' = "find_block_appearance_pos returned"
    /\ ret' = find_block_appearance_pos(field, controlled_block.val.block)
    /\ UNCHANGED <<field, controlled_block, block_queue, selector, filled_row_ys,
                   turn, prev, last_command, observed>>
    /\ UNCHANGED animation_vars

NextPlace ==
    \/ Call_is_arrangeable
    \/ Call_find_block_appearance_pos

SpecPlace == InitPlace /\ [][NextPlace]_vars

\* ------------------------------------------------------------------------
\* What the properties are stated with
\* ------------------------------------------------------------------------
\* the cell table of a block
CellsOf(block) == generate_cells(block.tables, block.direction, block.bomb_tag)

\* the occupied cells of a block, as offsets from its anchor
OccupiedOffsets(block) ==
    {o \in {Pos(dx, dy) : dx \in TableIndex, dy \in TableIndex} :
        CellsOf(block)[o.y][o.x] # "Empty"}

\* (x, y) is a cell of the field f and that cell is Empty
FreeAt(f, x, y) ==
    /\ x \in 0 .. (WIDTH - 1)
    /\ y \in 0 .. (HEIGHT - 1)
    /\ f[y][x] = "Empty"

\* every occupied cell of the block, standing at anchor, lies inside the field
\* on an Empty cell
Fits(f, block, anchor) ==
    \A o \in OccupiedOffsets(block) : FreeAt(f, anchor.x + o.x, anchor.y + o.y)

\* the field f with the occupied cells of the block, standing at anchor,
\* written over the cells they lie on and every other cell as it was
Committed(f, block, anchor) ==
    LET occupied == OccupiedOffsets(block)
    IN  [y \in 0 .. (HEIGHT - 1) |-> [x \in 0 .. (WIDTH - 1) |->
            IF Pos(x - anchor.x, y - anchor.y) \in occupied
            THEN CellsOf(block)[y - anchor.y][x - anchor.x]
            ELSE f[y][x]]]

\* the anchor moved by (dx, dy)
Shifted(anchor, dx, dy) == Pos(anchor.x + dx, anchor.y + dy)

\* the state the last command was given to
PrevField == prev.val.field

PrevBlock == prev.val.controlled_block.block

PrevAnchor == prev.val.controlled_block.left_top

PrevQueue == prev.val.block_queue

\* the last step was apply_command(command) and nothing has happened since
Applied(command) == prev.some /\ last_command = command

\* the result of the last command was WaitNextCommand with this controlled
\* block, this field and this queue
WaitsWith(block, anchor, f, queue) ==
    /\ pc = "control"
    /\ controlled_block = Some(ControlledBlock_new(block, anchor))
    /\ field = f
    /\ block_queue = queue

\* the result of the last command was ProceedAnimation with the block committed
\* at anchor and this queue
ProceedsWith(block, anchor, f, queue) ==
    /\ pc = "place_block"
    /\ controlled_block = None
    /\ field = Committed(f, block, anchor)
    /\ block_queue = queue

\* the distance a rotation searches around the anchor, and the band a spawn searches
ShiftMax == BLOCK_TABLE_SIZE \div 2

\* the block turned as the rotation command turns it
Rotated(block, command) ==
    [block EXCEPT !.direction = IF command = "RotateClockwise"
                                THEN Direction_rotate_clockwise(@)
                                ELSE Direction_rotate_unticlockwise(@)]

\* the last command was a rotation and the turned block fits nowhere within
\* ShiftMax cells of the anchor
RotationRejected ==
    /\ prev.some
    /\ last_command \in {"RotateClockwise", "RotateUnticlockwise"}
    /\ \A dx \in (0 - ShiftMax) .. ShiftMax, dy \in (0 - ShiftMax) .. ShiftMax :
           ~Fits(PrevField, Rotated(PrevBlock, last_command), Shifted(PrevAnchor, dx, dy))

\* the last command was Hold and find_block_appearance_pos found no anchor for
\* the block of the hold slot
HoldRejected ==
    /\ Applied("Hold")
    /\ ~find_block_appearance_pos(PrevField, PrevQueue.hold_block).some

\* the anchors of the spawn band in the order a centre-outward search without a
\* limit tries them: the rows from the top of the band down, and in each row the
\* table of the block centred on the field, then one to the right, one to the
\* left, two to the right, two to the left, ... across the whole field
CentreOutward ==
    [i \in 1 .. (2 * WIDTH + 1) |-> IF i % 2 = 0 THEN i \div 2 ELSE 0 - (i \div 2)]

BandAnchors ==
    [k \in 1 .. (2 * ShiftMax * Len(CentreOutward)) |->
        Pos(CentreOutward[((k - 1) % Len(CentreOutward)) + 1]
                + (WIDTH \div 2) - (BLOCK_TABLE_SIZE \div 2),
            ((k - 1) \div Len(CentreOutward)) - ShiftMax)]

\* Some of the first anchor of cands at which the block fits, None if there is none
FirstFit(f, block, cands) ==
    LET fitting == {k \in 1 .. Len(cands) : Fits(f, block, cands[k])}
    IN  IF fitting = {} THEN None
        ELSE Some(cands[CHOOSE k \in fitting : \A j \in fitting : k <= j])

\* the shifts below the anchor of the last command at which its block fits
FittingShifts == {d \in 0 .. HEIGHT : Fits(PrevField, PrevBlock, Shifted(PrevAnchor, 0, d))}

\* the last command committed the block d cells below its anchor
CommittedBelow(d) ==
    ProceedsWith(PrevBlock, Shifted(PrevAnchor, 0, d), PrevField, PrevQueue)

\* ------------------------------------------------------------------------
\* Properties
\* ------------------------------------------------------------------------
\* C1: is_arrangeable returns true if and only if every occupied cell of the
\* block, moved by the anchor, lies inside the field on an Empty cell; one
\* occupied cell outside the field or on a non-Empty cell makes it false.
C1_is_arrangeable_iff_fits ==
    pc = "is_arrangeable returned" =>
        ret = Some(Fits(field, controlled_block.val.block, controlled_block.val.left_top))

\* is_arrangeable returned false for a block with exactly one occupied cell
\* outside the field or on a non-Empty cell
C1_witness ==
    /\ pc = "is_arrangeable returned"
    /\ ret = Some(FALSE)
    /\ Cardinality({o \in OccupiedOffsets(controlled_block.val.block) :
                       ~FreeAt(field, controlled_block.val.left_top.x + o.x,
                               controlled_block.val.left_top.y + o.y)}) = 1

\* C2: in every state made by FieldUnderAgentControl::new or returned as
\* WaitNextCommand, after any sequence of commands, the controlled block fits at
\* its anchor: each occupied cell lies inside the field on an Empty cell.
C2_controlled_block_fits ==
    pc = "control" =>
        Fits(field, controlled_block.val.block, controlled_block.val.left_top)

\* a rotation was accepted at an anchor other than the one the block stood at
C2_witness ==
    /\ pc = "control"
    /\ prev.some
    /\ last_command \in {"RotateClockwise", "RotateUnticlockwise"}
    /\ controlled_block.val.block = Rotated(PrevBlock, last_command)
    /\ controlled_block.val.left_top # PrevAnchor

\* C3: whenever apply_command commits a block (blocked Down, or Drop), the field
\* it returns is the field before with exactly the occupied cells of the block,
\* at the anchor it is committed at, written into it, each of these cells was
\* inside the field and Empty before, and the assertion of place_block holds.
C3_commit_writes_only_empty_cells ==
    (prev.some /\ pc \in {"place_block", "panicked"}) =>
        /\ pc = "place_block"
        /\ last_command \in {"Down", "Drop"}
        /\ \E d \in IF last_command = "Down" THEN {0} ELSE 0 .. HEIGHT :
               /\ Fits(PrevField, PrevBlock, Shifted(PrevAnchor, 0, d))
               /\ field = Committed(PrevField, PrevBlock, Shifted(PrevAnchor, 0, d))

\* a blocked Down committed a block
C3_witness ==
    /\ Applied("Down")
    /\ pc = "place_block"
    /\ field # PrevField

\* C4: Down, when the block fits one cell below its anchor, returns
\* WaitNextCommand with the anchor one cell lower and block, field and queue as
\* they were; otherwise it returns ProceedAnimation with the block committed at
\* its anchor and the queue as it was.
C4_down_moves_or_locks ==
    Applied("Down") =>
        IF Fits(PrevField, PrevBlock, Shifted(PrevAnchor, 0, 1))
        THEN WaitsWith(PrevBlock, Shifted(PrevAnchor, 0, 1), PrevField, PrevQueue)
        ELSE CommittedBelow(0)

\* Down moved a block that earlier commands had moved away from its spawn row
C4_witness ==
    /\ Applied("Down")
    /\ pc = "control"
    /\ controlled_block.val.left_top = Shifted(PrevAnchor, 0, 1)
    /\ PrevAnchor.y > 0

\* C5 as the specification states it: Drop returns ProceedAnimation with the
\* block committed at anchor + d, d the greatest shift at which the block fits.
C5_drop_commits_at_greatest_fitting_shift ==
    Applied("Drop") =>
        \E fitting \in {FittingShifts} :
        \E d \in fitting :
            /\ \A e \in fitting : e <= d
            /\ CommittedBelow(d)

\* C5: Drop returns ProceedAnimation with the block committed at anchor + d, d
\* the greatest shift such that the block fits at every shift from 0 to d: the
\* block falls until the next cell down does not take it.
C5_drop_commits_where_fall_stops ==
    Applied("Drop") =>
        \E fitting \in {FittingShifts} :
        \E d \in fitting :
            /\ \A e \in 0 .. d : e \in fitting
            /\ (d + 1) \notin fitting
            /\ CommittedBelow(d)

\* Drop committed a block above a place further down at which it fits too
C5_witness ==
    /\ Applied("Drop")
    /\ pc = "place_block"
    /\ \E fitting \in {FittingShifts} :
       \E d \in fitting :
           /\ \E e \in fitting : e > d
           /\ CommittedBelow(d)

\* C6: Left and Right always return WaitNextCommand: the anchor one cell further
\* in the direction of the command if the block fits there, the anchor as it was
\* otherwise; block, field and queue as they were in both cases.
C6_left_right_move_or_stay ==
    (Applied("Left") \/ Applied("Right")) =>
        \E dx \in {IF last_command = "Left" THEN 0 - 1 ELSE 1} :
            IF Fits(PrevField, PrevBlock, Shifted(PrevAnchor, dx, 0))
            THEN WaitsWith(PrevBlock, Shifted(PrevAnchor, dx, 0), PrevField, PrevQueue)
            ELSE WaitsWith(PrevBlock, PrevAnchor, PrevField, PrevQueue)

\* Left was given to a block that does not fit one cell to the left
C6_witness ==
    /\ Applied("Left")
    /\ pc = "control"
    /\ ~Fits(PrevField, PrevBlock, Shifted(PrevAnchor, 0 - 1, 0))
    /\ controlled_block.val.left_top = PrevAnchor

\* C7: a rotation that finds no place for the turned block within its search
\* bound, and a Hold that finds no spawn anchor for the block of the hold slot,
\* return WaitNextCommand with the state exactly as it was before the command.
C7_rejected_command_changes_nothing ==
    (RotationRejected \/ HoldRejected) =>
        WaitsWith(PrevBlock, PrevAnchor, PrevField, PrevQueue)

\* a rotation was rejected
C7_witness ==
    /\ RotationRejected
    /\ pc = "control"
    /\ controlled_block.val.block.direction = PrevBlock.direction

\* C8: Hold, when find_block_appearance_pos finds an anchor for the block of the
\* hold slot, returns WaitNextCommand with that block controlled at that anchor,
\* the block controlled before in the hold slot, and the field and the queue of
\* next blocks as they were.
C8_hold_swaps ==
    (Applied("Hold") /\ find_block_appearance_pos(PrevField, PrevQueue.hold_block).some) =>
        WaitsWith(PrevQueue.hold_block,
                  find_block_appearance_pos(PrevField, PrevQueue.hold_block).val,
                  PrevField,
                  [next_blocks |-> PrevQueue.next_blocks, hold_block |-> PrevBlock])

\* Hold took another block out of the hold slot than the one controlled, which
\* had been moved away from where the new one appears
C8_witness ==
    /\ Applied("Hold")
    /\ pc = "control"
    /\ controlled_block.val.block = PrevQueue.hold_block
    /\ block_queue.hold_block = PrevBlock
    /\ PrevBlock # PrevQueue.hold_block
    /\ controlled_block.val.left_top # PrevAnchor

\* C9: in every state execute_game reaches, apply_command has returned for each
\* command without a panic or a failed assertion, and the loop has ended only
\* where find_block_appearance_pos has no anchor for the block popped from the
\* queue.
C9_only_spawn_failure_ends_the_game ==
    /\ pc # "panicked"
    /\ pc = "game_over" => ~find_block_appearance_pos(field, block_queue.next_blocks[1]).some

\* the game ended at the spawn that follows a committed block
C9_witness ==
    /\ pc = "game_over"
    /\ turn = 1
    /\ field # Field_tower

\* C10 as the specification states it: find_block_appearance_pos returns the
\* first anchor at which the block fits, the anchors taken row by row from the
\* top of the band down and in each row centre-outward (0, +1, -1, +2, -2, ...);
\* an anchor it returns is one at which the block fits.
C10_first_fit_in_centre_outward_order ==
    pc = "find_block_appearance_pos returned" =>
        /\ ret = FirstFit(field, controlled_block.val.block, BandAnchors)
        /\ ret.some => Fits(field, controlled_block.val.block, ret.val)


\* ------------------------------------------------------------------------
\* The resolution loop of execute_game on its own, from committed fields
\* ------------------------------------------------------------------------
\* a field a game can have built: nothing above row top, the rows of full_rows
\* filled, in the other rows three pillars one cell wide, bombs where bombs says
resolve_cell(x, y, full_rows, bombs, top) ==
    IF y >= top /\ (y \in full_rows \/ x \in {1, 4, 7})
    THEN IF <<x, y>> \in bombs THEN "Bomb" ELSE "Normal"
    ELSE "Empty"

Field_resolve(full_rows, bombs, top) ==
    [y \in 0 .. (HEIGHT - 1) |-> [x \in 0 .. (WIDTH - 1) |->
        resolve_cell(x, y, full_rows, bombs, top)]]

\* the bottom row full with a bomb at its right, above its right half a slab
\* with a bomb: when the right half of the bottom row has exploded the slab
\* falls into it and the row is full again
cascade_cell(x, y) ==
    IF y = HEIGHT - 1 \/ (y = HEIGHT - 2 /\ x >= 5)
    THEN IF <<x, y>> \in {<<8, HEIGHT - 1>>, <<6, HEIGHT - 2>>} THEN "Bomb" ELSE "Normal"
    ELSE "Empty"

Field_cascade ==
    [y \in 0 .. (HEIGHT - 1) |-> [x \in 0 .. (WIDTH - 1) |-> cascade_cell(x, y)]]

ResolveFullRows == {{}, {19}, {18, 19}, {17, 19}, 16 .. 19}

ResolveBombs ==
    {{}, {<<1, 19>>}, {<<1, 18>>, <<4, 17>>, <<7, 16>>}, {<<8, 19>>, <<7, 15>>},
     {<<4, 16>>}, {<<4, 18>>, <<1, 18>>}, {<<1, 18>>, <<4, 17>>}}

ResolveTops == {3, 14, 19}

ResolveFields ==
    {Field_resolve(full_rows, bombs, top) :
        full_rows \in ResolveFullRows, bombs \in ResolveBombs, top \in ResolveTops}
    \cup {Field_cascade, Field_well, Field_tower}

\* the values filled_row_ys of execute_game can have for a field: no row, the
\* full rows of the field, the bottom row
ResolvePrevious(f) == {<<>>, scan_filled_row_ys(f), <<HEIGHT - 1>>}

\* execute_game at the top of its resolution loop (single_play.rs, line 80)
InitResolve ==
    /\ pc = "full_row"
    /\ field \in ResolveFields
    /\ filled_row_ys \in ResolvePrevious(field)
    /\ \E fr \in {FullRow_new(field, filled_row_ys)} :
           /\ ys = fr.filled_row_ys
           /\ frame = fr.frame
    /\ observed = [NoObservation EXCEPT !.field = field]
    /\ controlled_block = None
    /\ block_queue = GameStart.block_queue
    /\ selector = GameStart.selector
    /\ explosion_chain = ChainCounter_new
    /\ explosion = NoExplosion
    /\ floating_cell_positions = {}
    /\ turn = 0
    /\ prev = None
    /\ last_command = "none"
    /\ ret = None

NextResolve ==
    \/ FullRow_wait_next
    \/ Explosion_wait_next
    \/ DropCell_wait_next

SpecResolve == InitResolve /\ [][NextResolve]_vars

\* Animation::execute calls wait_next until the animation is Finished and the
\* loop of execute_game makes the next animation at once: weak fairness of the
\* step, WF_vars(NextResolve), written with what enables the step (the
\* resolution loop has not been left) in the place of ENABLED
Resolution_is_scheduled ==
    []<>(pc \notin {"full_row", "explosion", "drop_cell"}) \/ []<><<NextResolve>>_vars

SpecResolveFair == InitResolve /\ [][NextResolve]_vars /\ Resolution_is_scheduled

\* ------------------------------------------------------------------------
\* FullRow made and executed on its own, twice on the same field
\* ------------------------------------------------------------------------
\* FullRow::new(field, previous_filled_rows).execute(): what FullRow finishes with
FullRow_execute(f, previous_filled_rows) ==
    [field |-> f, filled_row_ys |-> FullRow_new(f, previous_filled_rows).filled_row_ys]

InitFullRow ==
    /\ pc = "call FullRow"
    /\ field \in ResolveFields
    /\ filled_row_ys \in ResolvePrevious(field)
    /\ ys = <<>>
    /\ frame = NoFrame
    /\ observed = NoObservation
    /\ controlled_block = None
    /\ block_queue = GameStart.block_queue
    /\ selector = GameStart.selector
    /\ explosion_chain = ChainCounter_new
    /\ explosion = NoExplosion
    /\ floating_cell_positions = {}
    /\ turn = 0
    /\ prev = None
    /\ last_command = "none"
    /\ ret = None

\* the first run: FullRow::new(field, &filled_row_ys).execute()
Call_FullRow ==
    /\ pc = "call FullRow"
    /\ pc' = "FullRow finished"
    /\ ret' = Some(FullRow_execute(field, filled_row_ys))
    /\ UNCHANGED <<field, controlled_block, block_queue, selector, filled_row_ys,
                   turn, prev, last_command, observed>>
    /\ UNCHANGED animation_vars

\* the second run, on the field of the first and with its result as the
\* previous rows; prev keeps what the first run was given and finished with
Call_FullRow_again ==
    /\ pc = "FullRow finished"
    /\ pc' = "FullRow finished again"
    /\ prev' = Some([previous_filled_rows |-> filled_row_ys,
                     filled_row_ys |-> ret.val.filled_row_ys])
    /\ field' = ret.val.field
    /\ filled_row_ys' = ret.val.filled_row_ys
    /\ ret' = Some(FullRow_execute(ret.val.field, ret.val.filled_row_ys))
    /\ UNCHANGED <<controlled_block, block_queue, selector, turn, last_command,
                   observed>>
    /\ UNCHANGED animation_vars

NextFullRow ==
    \/ Call_FullRow
    \/ Call_FullRow_again

SpecFullRow == InitFullRow /\ [][NextFullRow]_vars

\* ------------------------------------------------------------------------
\* DropCell made and executed on its own, from any field content
\* ------------------------------------------------------------------------
\* the cells a field can have in a window of three columns and three rows
DropPatterns == SUBSET {<<dx, dy>> : dx \in 0 .. 2, dy \in 0 .. 2}

\* the rows the top of the window is put at
DropWindowTops == {0, 14}

\* what lies under the window: nothing, or steps that rise to the left
\* (column 3 from row 17 down, column 4 from row 18 down, column 5 in row 19)
DropGrounds == {"none", "steps"}

drop_cell_of(x, y, pattern, top, ground) ==
    IF <<x - 3, y - top>> \in pattern
    THEN IF <<x - 3, y - top>> = <<1, 1>> THEN "Bomb" ELSE "Normal"
    ELSE IF ground = "steps" /\ x \in 3 .. 5 /\ y >= 14 + x
    THEN "Normal"
    ELSE "Empty"

Field_drop(pattern, top, ground) ==
    [y \in 0 .. (HEIGHT - 1) |-> [x \in 0 .. (WIDTH - 1) |->
        drop_cell_of(x, y, pattern, top, ground)]]

DropFields ==
    {Field_drop(pattern, top, ground) :
        pattern \in DropPatterns, top \in DropWindowTops, ground \in DropGrounds}

\* DropCell::new(field)
InitDrop ==
    /\ pc = "drop_cell"
    /\ field \in DropFields
    /\ floating_cell_positions = scan_floating_cell_positions(field)
    /\ observed = [NoObservation EXCEPT !.field = field]
    /\ filled_row_ys = <<>>
    /\ ys = <<>>
    /\ frame = NoFrame
    /\ controlled_block = None
    /\ block_queue = GameStart.block_queue
    /\ selector = GameStart.selector
    /\ explosion_chain = ChainCounter_new
    /\ explosion = NoExplosion
    /\ turn = 0
    /\ prev = None
    /\ last_command = "none"
    /\ ret = None

NextDrop == DropCell_wait_next

\* Animation::execute calls wait_next again and again until it is Finished:
\* weak fairness of the step, WF_vars(NextDrop), written with what enables the
\* step (a DropCell that has not finished) in the place of ENABLED
DropCell_is_scheduled == []<>(pc # "drop_cell") \/ []<><<NextDrop>>_vars

SpecDrop == InitDrop /\ [][NextDrop]_vars /\ DropCell_is_scheduled

\* ------------------------------------------------------------------------
\* Block::rotate_clockwise and Block::rotate_unticlockwise called on their own
\* ------------------------------------------------------------------------
\* the rotations made one after another on a block
MaxRotations == 4

\* every block: any shape, direction and bomb tag
AllBlocks ==
    {Block_new(QuadrupleBlockGenerator_shapes[i], d, bomb_tag) :
        i \in 1 .. Len(QuadrupleBlockGenerator_shapes), d \in Direction, bomb_tag \in BombTags}

\* controlled_block holds the block the rotations start from; ret holds the
\* block the last rotation returned and the rotations made so far
InitRotate ==
    /\ pc = "call rotate"
    /\ \E block \in AllBlocks :
           /\ controlled_block = Some(ControlledBlock_new(block, origin))
           /\ ret = Some([block |-> block, rotations |-> <<>>])
    /\ field = Field_empty
    /\ block_queue = GameStart.block_queue
    /\ selector = GameStart.selector
    /\ filled_row_ys = <<>>
    /\ explosion_chain = ChainCounter_new
    /\ frame = NoFrame
    /\ ys = <<>>
    /\ explosion = NoExplosion
    /\ floating_cell_positions = {}
    /\ turn = 0
    /\ prev = None
    /\ last_command = "none"
    /\ observed = NoObservation

\* block.rotate_clockwise()
Call_rotate_clockwise ==
    /\ pc = "call rotate"
    /\ Len(ret.val.rotations) < MaxRotations
    /\ ret' = Some([block |-> rotate_clockwise(ret.val.block),
                    rotations |-> Append(ret.val.rotations, "clockwise")])
    /\ UNCHANGED <<pc, field, controlled_block, block_queue, selector, filled_row_ys,
                   turn, prev, last_command, observed>>
    /\ UNCHANGED animation_vars

\* block.rotate_unticlockwise()
Call_rotate_unticlockwise ==
    /\ pc = "call rotate"
    /\ Len(ret.val.rotations) < MaxRotations
    /\ ret' = Some([block |-> rotate_unticlockwise(ret.val.block),
                    rotations |-> Append(ret.val.rotations, "unticlockwise")])
    /\ UNCHANGED <<pc, field, controlled_block, block_queue, selector, filled_row_ys,
                   turn, prev, last_command, observed>>
    /\ UNCHANGED animation_vars

NextRotate ==
    \/ Call_rotate_clockwise
    \/ Call_rotate_unticlockwise

SpecRotate == InitRotate /\ [][NextRotate]_vars

\* ------------------------------------------------------------------------
\* Shake::<i8>::next called on its own
\* ------------------------------------------------------------------------
\* the calls of next made on one Shake
MaxShakeCalls == 260

\* Shake::new(): nothing yielded yet
InitShake ==
    /\ pc = "call shake"
    /\ ret = Some([current |-> Shake_new, n |-> 0, item |-> None, before |-> None,
                   panicked |-> FALSE])
    /\ field = Field_empty
    /\ controlled_block = None
    /\ block_queue = GameStart.block_queue
    /\ selector = GameStart.selector
    /\ filled_row_ys = <<>>
    /\ explosion_chain = ChainCounter_new
    /\ frame = NoFrame
    /\ ys = <<>>
    /\ explosion = NoExplosion
    /\ floating_cell_positions = {}
    /\ turn = 0
    /\ prev = None
    /\ last_command = "none"
    /\ observed = NoObservation

\* shake.next() when the next value is an i8: yields the current value
Call_Shake_next ==
    /\ pc = "call shake"
    /\ ~ret.val.panicked
    /\ ret.val.n < MaxShakeCalls
    /\ Shake_next(ret.val.current) \in i8_values
    /\ ret' = Some([current |-> Shake_next(ret.val.current), n |-> ret.val.n + 1,
                    item |-> Some(ret.val.current), before |-> ret.val.item,
                    panicked |-> FALSE])
    /\ UNCHANGED <<pc, field, controlled_block, block_queue, selector, filled_row_ys,
                   turn, prev, last_command, observed>>
    /\ UNCHANGED animation_vars

\* shake.next() when the next value is no i8: the build with overflow checks
\* panics before it yields, the build without them goes on with the wrapped value
Call_Shake_next_overflowing ==
    /\ pc = "call shake"
    /\ ~ret.val.panicked
    /\ ret.val.n < MaxShakeCalls
    /\ Shake_next(ret.val.current) \notin i8_values
    /\ \/ ret' = Some([ret.val EXCEPT !.panicked = TRUE])
       \/ ret' = Some([current |-> i8_wrapping(Shake_next(ret.val.current)),
                       n |-> ret.val.n + 1,
                       item |-> Some(ret.val.current), before |-> ret.val.item,
                       panicked |-> FALSE])
    /\ UNCHANGED <<pc, field, controlled_block, block_queue, selector, filled_row_ys,
                   turn, prev, last_command, observed>>
    /\ UNCHANGED animation_vars

NextShake ==
    \/ Call_Shake_next
    \/ Call_Shake_next_overflowing

SpecShake == InitShake /\ [][NextShake]_vars

\* ------------------------------------------------------------------------
\* bomb_explosion_area called on its own, for two powers at one centre
\* ------------------------------------------------------------------------
\* the largest power the area is computed for
MaxPower == 16

\* the centres the area is computed at: the corners and the middle of the field
AreaCentres == {[x |-> 0, y |-> 0], [x |-> 4, y |-> 10], [x |-> WIDTH - 1, y |-> HEIGHT - 1]}

\* a power is the number of full rows, one at least when there is a centre, plus
\* the chain counter
InitArea ==
    /\ pc = "call bomb_explosion_area"
    /\ \E p \in 1 .. MaxPower, q \in 1 .. MaxPower, pos \in AreaCentres :
           ret = Some([p |-> p, q |-> q, pos |-> pos, area_p |-> None, area_q |-> None])
    /\ field = Field_empty
    /\ controlled_block = None
    /\ block_queue = GameStart.block_queue
    /\ selector = GameStart.selector
    /\ filled_row_ys = <<>>
    /\ explosion_chain = ChainCounter_new
    /\ frame = NoFrame
    /\ ys = <<>>
    /\ explosion = NoExplosion
    /\ floating_cell_positions = {}
    /\ turn = 0
    /\ prev = None
    /\ last_command = "none"
    /\ observed = NoObservation

\* bomb_explosion_area(ExplosionPower { power: p }, pos) and the same for q
Call_bomb_explosion_area ==
    /\ pc = "call bomb_explosion_area"
    /\ ~ret.val.area_p.some
    /\ ret' = Some([ret.val EXCEPT
                       !.area_p = Some(bomb_explosion_area(ret.val.p, ret.val.pos)),
                       !.area_q = Some(bomb_explosion_area(ret.val.q, ret.val.pos))])
    /\ UNCHANGED <<pc, field, controlled_block, block_queue, selector, filled_row_ys,
                   turn, prev, last_command, observed>>
    /\ UNCHANGED animation_vars

NextArea == Call_bomb_explosion_area

SpecArea == InitArea /\ [][NextArea]_vars

\* ------------------------------------------------------------------------
\* The animations of a turn: PlaceBlock and the resolution loop after it
\* ------------------------------------------------------------------------
\* the counters the turns before may have ended with
EarlierChains == 0 .. 2

\* PlaceBlock::new on a committed field; explosion_chain still holds the counter
\* of the turn before, until ChainCounter::new() is bound for this turn
InitTurn ==
    /\ pc = "place_block"
    /\ field \in ResolveFields
    /\ filled_row_ys \in ResolvePrevious(field)
    /\ explosion_chain \in EarlierChains
    /\ frame = AnimationFrame_with_frame_count(5)
    /\ ys = <<>>
    /\ observed = NoObservation
    /\ controlled_block = None
    /\ block_queue = GameStart.block_queue
    /\ selector = GameStart.selector
    /\ explosion = NoExplosion
    /\ floating_cell_positions = {}
    /\ turn = 0
    /\ prev = None
    /\ last_command = "none"
    /\ ret = None

NextTurn ==
    \/ PlaceBlock_wait_next
    \/ FullRow_wait_next
    \/ Explosion_wait_next
    \/ DropCell_wait_next

SpecTurn == InitTurn /\ [][NextTurn]_vars

\* ------------------------------------------------------------------------
\* AnimationFrame::wait_next called until None, and PlaceBlock executed
\* ------------------------------------------------------------------------
\* the largest frame count an AnimationFrame is made with
MaxFrameCount == 8

\* AnimationFrame::with_frame_count(count), with nothing returned yet, or
\* PlaceBlock::new on a committed field
InitFrame ==
    /\ \/ /\ pc = "call wait_next"
          /\ \E count \in 0 .. MaxFrameCount :
                 /\ frame = AnimationFrame_with_frame_count(count)
                 /\ ret = Some([count |-> count, somes |-> 0, none |-> FALSE])
          /\ field = Field_empty
          /\ filled_row_ys = <<>>
       \/ /\ pc = "place_block"
          /\ frame = AnimationFrame_with_frame_count(5)
          /\ ret = None
          /\ field \in ResolveFields
          /\ filled_row_ys \in ResolvePrevious(field)
    /\ explosion_chain = ChainCounter_new
    /\ ys = <<>>
    /\ observed = NoObservation
    /\ controlled_block = None
    /\ block_queue = GameStart.block_queue
    /\ selector = GameStart.selector
    /\ explosion = NoExplosion
    /\ floating_cell_positions = {}
    /\ turn = 0
    /\ prev = None
    /\ last_command = "none"

\* frame.wait_next(): Some(next frame), which the caller goes on with, or None
Call_AnimationFrame_wait_next ==
    /\ pc = "call wait_next"
    /\ ~ret.val.none
    /\ \E next \in {AnimationFrame_wait_next(frame)} :
           IF next.some
           THEN /\ frame' = next.val
                /\ ret' = Some([ret.val EXCEPT !.somes = @ + 1])
           ELSE /\ ret' = Some([ret.val EXCEPT !.none = TRUE])
                /\ UNCHANGED frame
    /\ UNCHANGED <<pc, field, controlled_block, block_queue, selector, filled_row_ys,
                   explosion_chain, ys, explosion, floating_cell_positions,
                   turn, prev, last_command, observed>>

NextFrame ==
    \/ Call_AnimationFrame_wait_next
    \/ PlaceBlock_wait_next

SpecFrame == InitFrame /\ [][NextFrame]_vars

\* ------------------------------------------------------------------------
\* BlockQueue::new and pop_and_fill called on their own
\* ------------------------------------------------------------------------
\* the calls of pop_and_fill made on one queue
MaxPops == 14

\* BlockQueue::new(selector), the generator at any place of its cycle; ret
\* holds that place and the blocks popped so far
InitQueue ==
    /\ pc = "call pop_and_fill"
    /\ \E start \in 0 .. (Len(QuadrupleBlockGenerator_shapes) - 1) :
       \E q \in {BlockQueue_new([current_index |-> start])} :
           /\ block_queue = q.block_queue
           /\ selector = q.selector
           /\ ret = Some([start |-> start, popped |-> <<>>])
    /\ field = Field_empty
    /\ controlled_block = None
    /\ filled_row_ys = <<>>
    /\ explosion_chain = ChainCounter_new
    /\ frame = NoFrame
    /\ ys = <<>>
    /\ explosion = NoExplosion
    /\ floating_cell_positions = {}
    /\ turn = 0
    /\ prev = None
    /\ last_command = "none"
    /\ observed = NoObservation

\* block_queue.pop_and_fill(selector)
Call_pop_and_fill ==
    /\ pc = "call pop_and_fill"
    /\ Len(ret.val.popped) < MaxPops
    /\ \E r \in {pop_and_fill(block_queue, selector)} :
           /\ block_queue' = r.block_queue
           /\ selector' = r.selector
           /\ ret' = Some([ret.val EXCEPT !.popped = Append(@, r.block)])
    /\ UNCHANGED <<pc, field, controlled_block, filled_row_ys, turn, prev,
                   last_command, observed>>
    /\ UNCHANGED animation_vars

NextQueue == Call_pop_and_fill

SpecQueue == InitQueue /\ [][NextQueue]_vars

\* ------------------------------------------------------------------------
\* AgentField under any sequence of its operations
\* ------------------------------------------------------------------------
\* the AgentField the variables hold
AgentField_self ==
    [field |-> field,
     current_block |-> controlled_block.val.block,
     current_block_pos |-> controlled_block.val.left_top,
     next_blocks |-> block_queue.next_blocks,
     hold_block |-> block_queue.hold_block]

\* AgentField::new(selector), the generator at any place of its cycle
InitAgent ==
    /\ pc = "call AgentField"
    /\ \E start \in 0 .. (Len(QuadrupleBlockGenerator_shapes) - 1) :
       \E a \in {AgentField_new([current_index |-> start])} :
           /\ ~a.panicked
           /\ field = a.state.field
           /\ controlled_block = Some(ControlledBlock_new(a.state.current_block,
                                                          a.state.current_block_pos))
           /\ block_queue = [next_blocks |-> a.state.next_blocks,
                             hold_block |-> a.state.hold_block]
           /\ selector = a.selector
    /\ filled_row_ys = <<>>
    /\ explosion_chain = ChainCounter_new
    /\ frame = NoFrame
    /\ ys = <<>>
    /\ explosion = NoExplosion
    /\ floating_cell_positions = {}
    /\ turn = 0
    /\ prev = None
    /\ last_command = "none"
    /\ ret = None
    /\ observed = NoObservation

\* one operation of AgentField on the state held; prev keeps the state it was
\* called on and ret the OperationResult
Call_AgentField(operation) ==
    /\ pc = "call AgentField"
    /\ \E r \in {AgentField_operate(AgentField_self, operation)} :
           /\ field' = r.state.field
           /\ controlled_block' = Some(ControlledBlock_new(r.state.current_block,
                                                           r.state.current_block_pos))
           /\ block_queue' = [next_blocks |-> r.state.next_blocks,
                              hold_block |-> r.state.hold_block]
           /\ ret' = Some(r.result)
    /\ prev' = Some(AgentField_self)
    /\ last_command' = operation
    /\ UNCHANGED <<pc, selector, filled_row_ys, turn, observed>>
    /\ UNCHANGED animation_vars

NextAgent ==
    \/ Call_AgentField("move_block_to_left")
    \/ Call_AgentField("move_block_to_right")
    \/ Call_AgentField("move_block_down")
    \/ Call_AgentField("drop_block")
    \/ Call_AgentField("rotate_block_clockwise")
    \/ Call_AgentField("rotate_block_unticlockwise")
    \/ Call_AgentField("hold_block")

SpecAgent == InitAgent /\ [][NextAgent]_vars

\* ------------------------------------------------------------------------
\* A turn of execute_game from the commit on, up to the next spawn
\* ------------------------------------------------------------------------
\* PlaceBlock::new on a committed field; filled_row_ys is what the spawn of the
\* turn left: the rows that were full before the commit, none with a bomb
InitSettle ==
    /\ pc = "place_block"
    /\ field \in ResolveFields
    /\ \E full \in {scan_filled_row_ys(field)} :
           filled_row_ys \in
               {p \in ResolvePrevious(field) :
                   \A i \in 1 .. Len(p) :
                       /\ \E j \in 1 .. Len(full) : full[j] = p[i]
                       /\ \A x \in DOMAIN field[p[i]] : ~is_explodable(field[p[i]][x])}
    /\ explosion_chain = ChainCounter_new
    /\ frame = AnimationFrame_with_frame_count(5)
    /\ ys = <<>>
    /\ observed = NoObservation
    /\ controlled_block = None
    /\ block_queue = GameStart.block_queue
    /\ selector = GameStart.selector
    /\ explosion = NoExplosion
    /\ floating_cell_positions = {}
    /\ turn = 0
    /\ prev = None
    /\ last_command = "none"
    /\ ret = None

SpecSettle == InitSettle /\ [][NextTurn]_vars

\* ------------------------------------------------------------------------
\* Counter::<i8, R>::next called on its own
\* ------------------------------------------------------------------------
\* the starts and ends of the ranges: at the low end of i8, about 0, at the
\* high end of i8
CounterStarts == {0 - 128, 0, 1, 2, 125, 126, 127}

CounterEnds == {0 - 128, 0, 1, 3, 4, 126, 127}

CounterRanges ==
    {[kind |-> k, start |-> s, end |-> e] :
        k \in {"Range", "RangeInclusive"}, s \in CounterStarts, e \in CounterEnds}
    \cup {[kind |-> "RangeFrom", start |-> s, end |-> s] : s \in CounterStarts}

\* Counter::new(range); ret holds the counter, the result of the last call of
\* next and the value of current before that call
InitCounter ==
    /\ pc = "call Counter"
    /\ \E range \in CounterRanges :
           ret = Some([counter |-> Counter_new(range), last |-> "new",
                       before |-> range.start])
    /\ field = Field_empty
    /\ controlled_block = None
    /\ block_queue = GameStart.block_queue
    /\ selector = GameStart.selector
    /\ filled_row_ys = <<>>
    /\ explosion_chain = ChainCounter_new
    /\ frame = NoFrame
    /\ ys = <<>>
    /\ explosion = NoExplosion
    /\ floating_cell_positions = {}
    /\ turn = 0
    /\ prev = None
    /\ last_command = "none"
    /\ observed = NoObservation

\* counter.next() when current + 1 is an i8
Call_Counter_next ==
    /\ pc = "call Counter"
    /\ ret.val.last # "panicked"
    /\ Counter_current(ret.val.counter) + 1 \in i8_values
    /\ \E r \in {Counter_next(ret.val.counter, Counter_current(ret.val.counter) + 1)} :
           ret' = Some([counter |-> r.self, last |-> r.result,
                        before |-> Counter_current(ret.val.counter)])
    /\ UNCHANGED <<pc, field, controlled_block, block_queue, selector, filled_row_ys,
                   turn, prev, last_command, observed>>
    /\ UNCHANGED animation_vars

\* counter.next() when current + 1 is no i8: the build with overflow checks
\* panics, the build without them goes on with the wrapped sum
Call_Counter_next_overflowing ==
    /\ pc = "call Counter"
    /\ ret.val.last # "panicked"
    /\ Counter_current(ret.val.counter) + 1 \notin i8_values
    /\ \/ ret' = Some([ret.val EXCEPT !.last = "panicked",
                                      !.before = Counter_current(ret.val.counter)])
       \/ \E r \in {Counter_next(ret.val.counter,
                                 i8_wrapping(Counter_current(ret.val.counter) + 1))} :
              ret' = Some([counter |-> r.self, last |-> r.result,
                           before |-> Counter_current(ret.val.counter)])
    /\ UNCHANGED <<pc, field, controlled_block, block_queue, selector, filled_row_ys,
                   turn, prev, last_command, observed>>
    /\ UNCHANGED animation_vars

NextCounter ==
    \/ Call_Counter_next
    \/ Call_Counter_next_overflowing

SpecCounter == InitCounter /\ [][NextCounter]_vars
\* C11: find_block_appearance_pos returns None only when the block fits at no
\* horizontal position in any row of the band it searches.
C11_none_only_when_nothing_fits_in_band ==
    (pc = "find_block_appearance_pos returned" /\ ~ret.some) =>
        \A k \in 1 .. Len(BandAnchors) :
            ~Fits(field, controlled_block.val.block, BandAnchors[k])


\* the rows of f whose cells are all non-empty
FullRows(f) ==
    {y \in 0 .. (HEIGHT - 1) : \A x \in 0 .. (WIDTH - 1) : f[y][x] # "Empty"}

\* the members of a list of rows
Members(rows) == {rows[i] : i \in 1 .. Len(rows)}

\* rows lists the set of rows s, each row once, from the top of the field down
ListsTopDown(rows, s) ==
    /\ Members(rows) = s
    /\ \A i \in 1 .. (Len(rows) - 1) : rows[i] < rows[i + 1]

\* the running animation is at its last frame: its next wait_next ends it
AtLastFrame == frame.current = frame.end

\* C12: when the set of the full rows of the field differs from the previous
\* set FullRow was given, FullRow holds, and finishes with, the full rows
\* listed once each from the top down and the field it was made with.
C12_full_row_reports_the_full_rows ==
    (pc = "full_row" /\ FullRows(field) # Members(filled_row_ys)) =>
        /\ ListsTopDown(ys, FullRows(field))
        /\ field = observed.field

\* FullRow is about to finish with two full rows, given a previous set of one
C12_witness ==
    /\ pc = "full_row"
    /\ AtLastFrame
    /\ filled_row_ys = <<HEIGHT - 1>>
    /\ ys = <<HEIGHT - 2, HEIGHT - 1>>
    /\ field = observed.field

\* a run of FullRow on its own has finished: its result is in ret
FullRowFinished == pc \in {"FullRow finished", "FullRow finished again"}

\* the run that has finished was given a previous set with the members of the
\* full rows of the field
GivenTheFullRows == Members(filled_row_ys) = FullRows(field)

\* C13, as amended: FullRow given a previous set with the same members as the
\* full rows of the field finishes with the empty list; so the second of two
\* runs on an unchanged field, given the result of the first, finishes with the
\* empty list whenever the first run finished with the full rows of the field
\* (it was not itself given them, or the field has no full row).
C13_suppressed_when_given_the_full_rows ==
    /\ (FullRowFinished /\ GivenTheFullRows) => ret.val.filled_row_ys = <<>>
    /\ (pc = "FullRow finished again" /\ Members(prev.val.filled_row_ys) = FullRows(field)) =>
           ret.val.filled_row_ys = <<>>

\* the second run was given the two full rows the first run finished with
C13_witness ==
    /\ pc = "FullRow finished again"
    /\ prev.val.previous_filled_rows = <<HEIGHT - 1>>
    /\ prev.val.filled_row_ys = <<HEIGHT - 2, HEIGHT - 1>>
    /\ filled_row_ys = <<HEIGHT - 2, HEIGHT - 1>>
    /\ ret.val.filled_row_ys = <<>>
    /\ ret.val.field = field

\* C13, as stated: the same, and the second of two runs on an unchanged field,
\* given the result of the first, always finishes with the empty list.
C13_second_run_always_empty ==
    /\ (FullRowFinished /\ GivenTheFullRows) => ret.val.filled_row_ys = <<>>
    /\ pc = "FullRow finished again" => ret.val.filled_row_ys = <<>>

\* the explodable cells of f that lie in one of the rows
Centres(f, rows) ==
    {p \in {Pos(x, y) : x \in 0 .. (WIDTH - 1), y \in Members(rows) \cap (0 .. (HEIGHT - 1))} :
        f[p.y][p.x] \in {"Bomb", "BigBombUpperLeft"}}

\* the Explosion of the step was made by try_init from the centres: its exploded
\* set is what these centres blast, its caught set the other explodable cells
\* blasted, its counter and row count the ones try_init was given
InitialisedFrom(e, f, rows, chain, centres) ==
    /\ e.exploded_cell_positions =
           scan_exploded_cell_positions(f, centres, ExplosionPower_new(Len(rows), chain))
    /\ centres \subseteq e.exploded_cell_positions
    /\ e.caught_bomb_positions =
           {p \in e.exploded_cell_positions \ centres : is_explodable_cell_of(f, p)}
    /\ e.current_chain = chain
    /\ e.filled_row_count = Len(rows)

\* C14: when FullRow has finished, Explosion::try_init is given the field and
\* the rows FullRow finished with. It returns Explodes exactly when an
\* explodable cell lies in one of these rows, with these cells as the centres
\* of the first wave; else it returns Stay and the field is as it was given.
C14_try_init_explodes_iff_a_centre ==
    [][(pc = "full_row" /\ AtLastFrame) =>
          \E centres \in {Centres(field, ys)} :
              /\ field' = field
              /\ IF centres # {}
                 THEN /\ pc' = "explosion"
                      /\ InitialisedFrom(explosion', field, ys, explosion_chain, centres)
                 ELSE pc' = "spawn"]_vars

\* the first wave of an Explosion made from a centre in a full row, with a bomb
\* outside the full rows caught by it
C14_witness ==
    /\ pc = "explosion"
    /\ observed.waves = 0
    /\ frame.current = 0
    /\ field = observed.field
    /\ Centres(field, ys) # {}
    /\ \E p \in explosion.caught_bomb_positions : p.y \notin Members(ys)

\* the Explosion has just finished: DropCell is made and has not yet stepped
ExplosionFinished == pc = "drop_cell" /\ observed.steps = 0

\* C15: when an Explosion has finished, every position of the field that was in
\* the exploded set of one of its waves is Empty (the centres of the first wave
\* are among them) and every other cell is as it was when the Explosion was made.
C15_exploded_cells_empty_others_kept ==
    ExplosionFinished =>
        \E exploded \in {observed.exploded} :
            /\ Centres(observed.field, ys) \subseteq exploded
            /\ \A y \in 0 .. (HEIGHT - 1) : \A x \in 0 .. (WIDTH - 1) :
                   field[y][x] = IF Pos(x, y) \in exploded THEN "Empty"
                                 ELSE observed.field[y][x]

\* an Explosion of several waves has finished; it has emptied cells, left others
\* and its exploded sets reached beyond the field
C15_witness ==
    /\ ExplosionFinished
    /\ observed.waves >= 2
    /\ \E p \in observed.exploded : p.x < 0
    /\ \E p \in observed.exploded : p.y \in 0 .. (HEIGHT - 1) /\ p.x \in 0 .. (WIDTH - 1)
                                    /\ observed.field[p.y][p.x] = "Normal"
                                    /\ field[p.y][p.x] = "Empty"
    /\ \E y \in 0 .. (HEIGHT - 1) : \E x \in 0 .. (WIDTH - 1) :
           Pos(x, y) \notin observed.exploded /\ field[y][x] = "Normal"

\* C16, as amended: the ChainCounter increments once per finished Explosion,
\* whatever the number of its waves: while the Explosion runs it holds the
\* counter try_init was given, and it finishes with that counter plus one.
C16_chain_counts_once_per_explosion ==
    /\ pc = "explosion" => explosion.current_chain = observed.chain
    /\ ExplosionFinished => explosion.current_chain = observed.chain + 1

\* an Explosion of three waves has finished with the counter it was given plus one
C16_witness ==
    /\ ExplosionFinished
    /\ observed.waves = 3
    /\ explosion.current_chain = observed.chain + 1

\* C16, as stated: the counter a finished Explosion returns is the counter
\* try_init was given plus the number of waves the Explosion executed.
C16_chain_counts_once_per_wave ==
    ExplosionFinished => explosion.current_chain = observed.chain + observed.waves

\* the positions of the non-empty cells of f
NonEmptyCells(f) ==
    {p \in {Pos(x, y) : x \in 0 .. (WIDTH - 1), y \in 0 .. (HEIGHT - 1)} :
        f[p.y][p.x] # "Empty"}

\* p and q are neighbours in one of the four directions
Adjacent(p, q) ==
    \/ p.x = q.x /\ (p.y = q.y + 1 \/ q.y = p.y + 1)
    \/ p.y = q.y /\ (p.x = q.x + 1 \/ q.x = p.x + 1)

RECURSIVE ReachedFrom(_, _)
\* the cells of the set cells that a path of neighbours within cells joins to
\* a cell of reached
ReachedFrom(cells, reached) ==
    LET more == {p \in cells \ reached : \E q \in reached : Adjacent(p, q)}
    IN  IF more = {} THEN reached ELSE ReachedFrom(cells, reached \cup more)

\* the cells of f a four-directional path through non-empty cells joins to a
\* non-empty cell of the bottom row
Supported(f) ==
    \E cells \in {NonEmptyCells(f)} :
        ReachedFrom(cells, {p \in cells : p.y = HEIGHT - 1}) = cells

\* DropCell is at the wait_next that returns Finished
DropCellFinishes == pc = "drop_cell" /\ floating_cell_positions = {}

\* C17: when DropCell reports Finished, the field has no floating cell: every
\* non-empty cell is joined to a non-empty cell of the bottom row by a
\* four-directional path through non-empty cells.
C17_no_floating_cell_when_drop_finishes ==
    DropCellFinishes => Supported(field)

\* DropCell finishes after steps that moved cells, with cells left in the field
C17_witness ==
    /\ DropCellFinishes
    /\ observed.steps >= 2
    /\ \E y \in 0 .. (HEIGHT - 3) : field[y][4] # "Empty"
    /\ Supported(field)

\* C18: from any field content DropCell terminates: it never moves cells in
\* more than HEIGHT steps, and it reaches Finished (execute_game then makes the
\* next FullRow).
C18_drop_cell_finishes_within_height_steps ==
    /\ [](pc = "drop_cell" => observed.steps <= HEIGHT)
    /\ <>(pc = "full_row")

\* DropCell finishes after a cell of the top row has come down to the bottom row
C18_witness ==
    /\ DropCellFinishes
    /\ observed.steps = HEIGHT - 1
    /\ \E x \in 0 .. (WIDTH - 1) :
           observed.field[0][x] # "Empty" /\ field[HEIGHT - 1][x] # "Empty"

\* the phase at pc has returned Finished: an animation of frames is at its last
\* frame, an Explosion has no caught bomb left, a DropCell no floating cell
PhaseFinished ==
    CASE pc \in {"place_block", "full_row"} -> AtLastFrame
      [] pc = "explosion" -> AtLastFrame /\ explosion.caught_bomb_positions = {}
      [] pc = "drop_cell" -> floating_cell_positions = {}
      [] OTHER -> TRUE

\* the phase that follows the finished phase at pc in a turn of execute_game
PhaseAfter ==
    CASE pc = "control" -> "place_block"
      [] pc = "place_block" -> "full_row"
      [] pc = "full_row" -> IF Centres(field, ys) # {} THEN "explosion" ELSE "spawn"
      [] pc = "explosion" -> "drop_cell"
      [] pc = "drop_cell" -> "full_row"
      [] OTHER -> pc

\* C19: in a turn of execute_game the phases follow one another in the order
\* PlaceBlock, FullRow, Explosion, DropCell, FullRow again and so on; a phase
\* starts only when the phase before it has returned Finished, and the turn
\* goes to the next spawn only from a FullRow after which try_init found
\* nothing to explode.
C19_phases_in_order ==
    [][(pc \in {"control", "place_block", "full_row", "explosion", "drop_cell"} /\ pc' # pc) =>
          /\ PhaseFinished
          /\ pc' = PhaseAfter]_vars

\* the next spawn of a turn in which an explosion and a settle were gone through
C19_witness ==
    /\ pc = "spawn"
    /\ turn >= 1
    /\ explosion_chain >= 1
    /\ floating_cell_positions = {}

\* a FullRow made when a DropCell finished that had moved no cell
DetectsAfterStillSettle == pc = "full_row" /\ observed.waves >= 1 /\ observed.steps = 0

\* C20, as amended: after a gravity settle execute_game always detects full
\* rows again, with no previous rows, whether gravity moved a cell or not; the
\* turn does not go from the settle to the next spawn.
C20_settle_is_followed_by_detection ==
    [][DropCellFinishes =>
          /\ pc' = "full_row"
          /\ filled_row_ys' = <<>>
          /\ ListsTopDown(ys', FullRows(field))
          /\ field' = field]_vars

\* the detection after a settle that moved no cell, with a row still full
C20_witness ==
    /\ DetectsAfterStillSettle
    /\ ys # <<>>

\* C20, as stated: after a gravity settle execute_game detects full rows again
\* if gravity moved a cell, and goes to the next spawn with no further
\* detection if gravity moved no cell.
C20_detection_only_if_gravity_moved ==
    [][DropCellFinishes =>
          pc' = IF observed.steps >= 1 THEN "full_row" ELSE "spawn"]_vars

\* the number of bombs of f
BombCount(f) ==
    Cardinality({p \in NonEmptyCells(f) : f[p.y][p.x] \in {"Bomb", "BigBombUpperLeft"}})

\* C21: from any committed field the resolution of a turn terminates: no
\* Explosion runs more waves than the field it was made with has bombs, and
\* the loop of detection, explosion and settle comes to the branch without
\* explosion, from which the next spawn follows.
C21_resolution_terminates_waves_bounded_by_bombs ==
    /\ [](pc \in {"explosion", "drop_cell"} => observed.waves <= BombCount(observed.field))
    /\ <>(pc = "spawn")

\* the rotations made so far are n times the rotation r and nothing else
Rotated_n_times(n, r) == pc = "call rotate" /\ ret.val.rotations = [i \in 1 .. n |-> r]

\* two blocks are equal: the same shape tables, direction and bomb tag, and so
\* the same cell table
SameBlock(a, b) == a = b /\ CellsOf(a) = CellsOf(b)

\* C22: for every block, four clockwise rotations, and four counter-clockwise
\* ones, give the block back; two clockwise rotations give what two
\* counter-clockwise ones give; three rotations one way give what one rotation
\* the other way gives.
C22_rotation_laws ==
    \E original \in {IF pc = "call rotate" THEN controlled_block.val.block ELSE None} :
        /\ Rotated_n_times(4, "clockwise") => SameBlock(ret.val.block, original)
        /\ Rotated_n_times(4, "unticlockwise") => SameBlock(ret.val.block, original)
        /\ Rotated_n_times(2, "clockwise") =>
               SameBlock(ret.val.block, rotate_unticlockwise(rotate_unticlockwise(original)))
        /\ Rotated_n_times(2, "unticlockwise") =>
               SameBlock(ret.val.block, rotate_clockwise(rotate_clockwise(original)))
        /\ Rotated_n_times(3, "clockwise") =>
               SameBlock(ret.val.block, rotate_unticlockwise(original))
        /\ Rotated_n_times(3, "unticlockwise") =>
               SameBlock(ret.val.block, rotate_clockwise(original))

\* the T block with all its cells bombs, turned clockwise three times, its
\* cell table other than the one it started with
C22_witness ==
    /\ Rotated_n_times(3, "clockwise")
    /\ controlled_block.val.block = Block_new("T", "Above", BombTag_All)
    /\ ret.val.block = Block_new("T", "Left", BombTag_All)
    /\ CellsOf(ret.val.block) # CellsOf(controlled_block.val.block)

\* element n of the sequence 0, 1, -1, 2, -2, ...
ShakeElement(n) ==
    IF n = 0 THEN 0 ELSE IF n % 2 = 1 THEN (n + 1) \div 2 ELSE 0 - (n \div 2)

\* the last call of next that returned has yielded element n - 1 of the sequence, after
\* an element that is not larger in absolute value and that is the positive
\* one if the two have the same absolute value
YieldedTheSequence ==
    /\ ret.val.n >= 1 => ret.val.item = Some(ShakeElement(ret.val.n - 1))
    /\ ret.val.n >= 2 =>
           /\ abs(ret.val.before.val) <= abs(ret.val.item.val)
           /\ abs(ret.val.before.val) = abs(ret.val.item.val) =>
                  ret.val.before.val > 0 /\ ret.val.item.val < 0

\* the elements of absolute value up to 126, and +127: the ones a Shake of i8
\* yields whatever the build
ShakeElementsOfAnI8 == Cardinality(i8_values \ {0 - 128, 0 - 127})

\* C23 (amended): a Shake of i8 yields the elements 0 to 253 of the sequence
\* 0, 1, -1, 2, -2, ... (element 0 is 0, element 2k-1 is +k, element 2k is -k):
\* in non-decreasing absolute value, the positive value before the negative;
\* no call before the one for element 254 panics.
C23_shake_yields_the_sequence_while_representable ==
    (pc = "call shake" /\ ret.val.n <= ShakeElementsOfAnI8) =>
        /\ YieldedTheSequence
        /\ ret.val.panicked => ret.val.n = ShakeElementsOfAnI8

\* the five elements of the test of the source have been yielded, the last -2
C23_witness ==
    /\ pc = "call shake"
    /\ ret.val.n = 5
    /\ ret.val.item = Some(0 - 2)
    /\ ret.val.before = Some(2)

\* C23: the Shake iterator yields, for every n >= 0, element n of the sequence
\* 0, 1, -1, 2, -2, ...
C23_shake_yields_the_sequence_for_every_n ==
    pc = "call shake" => ~ret.val.panicked /\ YieldedTheSequence

\* the half-extents of an area about its centre: the columns to the left of the
\* centre and the rows above it, as many as to the right and below
HalfExtents(area, pos) ==
    [x |-> pos.x - area.left_top.x, y |-> pos.y - area.left_top.y]

\* the area is the centre with its half-extents on both sides
CentredOn(area, pos) ==
    /\ area.size.x = 2 * HalfExtents(area, pos).x + 1
    /\ area.size.y = 2 * HalfExtents(area, pos).y + 1

\* the areas of the two powers have been computed
AreasComputed == pc = "call bomb_explosion_area" /\ ret.val.area_p.some

\* the power from which the extent is the largest one: the one after the last
\* power the table of bomb_explosion_area lists
SaturatingPower == 12 + 1

\* C24: the blast extent of a bomb does not decrease with the power and
\* saturates: for powers p <= q both half-extents at p are at most those at q,
\* and from a largest power on the extent is the same.
C24_blast_extent_monotonic_and_saturating ==
    AreasComputed =>
        \E hp \in {HalfExtents(ret.val.area_p.val, ret.val.pos)},
           hq \in {HalfExtents(ret.val.area_q.val, ret.val.pos)} :
            /\ CentredOn(ret.val.area_p.val, ret.val.pos)
            /\ CentredOn(ret.val.area_q.val, ret.val.pos)
            /\ ret.val.p <= ret.val.q => hp.x <= hq.x /\ hp.y <= hq.y
            /\ (ret.val.p >= SaturatingPower /\ ret.val.q >= SaturatingPower) => hp = hq

\* the areas of the powers 1 and 12 at the middle of the field: 7 by 1 and 15 by 15
C24_witness ==
    /\ AreasComputed
    /\ ret.val.p = 1
    /\ ret.val.q = 12
    /\ ret.val.pos = [x |-> 4, y |-> 10]
    /\ ret.val.area_p.val.size = [x |-> 7, y |-> 1]
    /\ ret.val.area_q.val.size = [x |-> 15, y |-> 15]

\* the last command was a rotation and the turned block fits somewhere within
\* ShiftMax cells of the anchor
RotationAccepted ==
    /\ prev.some
    /\ last_command \in {"RotateClockwise", "RotateUnticlockwise"}
    /\ ~RotationRejected

\* the offsets within the search bound of a rotation
RotationOffsets ==
    {[dx |-> dx, dy |-> dy] : dx \in (0 - ShiftMax) .. ShiftMax, dy \in (0 - ShiftMax) .. ShiftMax}

\* the offsets at which the block turned by the last command fits
FittingOffsets ==
    {o \in RotationOffsets :
        Fits(PrevField, Rotated(PrevBlock, last_command), Shifted(PrevAnchor, o.dx, o.dy))}

\* the offset from the anchor before the last command to the anchor now
AcceptedOffset ==
    [dx |-> controlled_block.val.left_top.x - PrevAnchor.x,
     dy |-> controlled_block.val.left_top.y - PrevAnchor.y]

\* the distance of an offset from the anchor
OffsetDistance(o) == abs(o.dx) + abs(o.dy)

\* the place of a shift in the order 0, +1, -1, +2, -2
ShiftRank(v) == IF v > 0 THEN 2 * v - 1 ELSE 0 - (2 * v)

\* offset a is tried before offset b: dy in the outer loop, dx in the inner
TriedBefore(a, b) ==
    \/ ShiftRank(a.dy) < ShiftRank(b.dy)
    \/ a.dy = b.dy /\ ShiftRank(a.dx) < ShiftRank(b.dx)

\* C25: an accepted rotation takes the closest valid placement: the turned
\* block fits at no offset within the search bound that is closer to the anchor
\* (smaller |dx| + |dy|) than the accepted one.
C25_rotation_takes_the_closest_offset ==
    RotationAccepted =>
        /\ pc = "control"
        /\ AcceptedOffset \in FittingOffsets
        /\ \A o \in FittingOffsets : OffsetDistance(AcceptedOffset) <= OffsetDistance(o)

\* C26: a rotation tries the offsets with dy in the order 0, +1, -1, +2, -2 and,
\* for each dy, dx in the same order, both within half the size of the block
\* table; the turned block becomes controlled at the first offset of that order
\* at which it fits, and the field and the queue stay as they are.
C26_rotation_takes_the_first_offset_in_shake_order ==
    RotationAccepted =>
        /\ WaitsWith(Rotated(PrevBlock, last_command), controlled_block.val.left_top,
                     PrevField, PrevQueue)
        /\ AcceptedOffset \in FittingOffsets
        /\ \A o \in FittingOffsets : o = AcceptedOffset \/ TriedBefore(AcceptedOffset, o)

\* a rotation was accepted in a later row of the search: the turned block fits
\* at no offset of the row of the anchor
C26_witness ==
    /\ RotationAccepted
    /\ pc = "control"
    /\ AcceptedOffset.dy # 0
    /\ controlled_block.val.block = Rotated(PrevBlock, last_command)

\* a wave of the Explosion ends with caught bombs: the step makes the next wave
WaveEndsWithCaughtBombs ==
    pc = "explosion" /\ AtLastFrame /\ explosion.caught_bomb_positions # {}

\* the next wave of the step has the bombs the wave before caught as its
\* centres and blasts them with this power, on the field as the wave before
\* left it; it counts its 20 frames from the start
NextWaveWithPower(power) ==
    /\ pc' = "explosion"
    /\ explosion'.exploded_cell_positions =
           scan_exploded_cell_positions(field, explosion.caught_bomb_positions, power)
    /\ explosion'.caught_bomb_positions =
           {p \in explosion.caught_bomb_positions \cup explosion'.exploded_cell_positions :
               /\ ~(p \in explosion.caught_bomb_positions /\ p \in explosion'.exploded_cell_positions)
               /\ is_explodable_cell_of(field, p)}
    /\ explosion'.filled_row_count = explosion.filled_row_count
    /\ frame' = [current |-> 0, end |-> 20]

\* C27 (amended): when a wave of an Explosion ends with caught bombs, those
\* bombs are the centres of the next wave, and the next wave has the chain
\* index of the wave that ended: its blast regions are computed with the power
\* filled-row-count + that chain index.
C27_next_wave_from_caught_bombs_same_chain ==
    [][WaveEndsWithCaughtBombs =>
          /\ NextWaveWithPower(explosion.filled_row_count + explosion.current_chain)
          /\ explosion'.current_chain = explosion.current_chain]_vars

\* the second wave of an Explosion has been made: its centre is the bomb above
\* the full rows that the first wave caught
C27_witness ==
    /\ pc = "explosion"
    /\ observed.waves = 1
    /\ frame.current = 0
    /\ explosion.exploded_cell_positions # {}
    /\ \E p \in explosion.exploded_cell_positions :
           /\ p \in NonEmptyCells(observed.field)
           /\ observed.field[p.y][p.x] = "Bomb"
           /\ p.y \notin FullRows(observed.field)
           /\ field[p.y][p.x] = "Bomb"

\* C27: when a wave of an Explosion ends with caught bombs, those bombs are the
\* centres of the next wave and the next wave uses the chain index plus one:
\* power = filled-row-count + (chain index of the wave that ended + 1).
C27_next_wave_from_caught_bombs_next_chain ==
    [][WaveEndsWithCaughtBombs =>
          NextWaveWithPower(explosion.filled_row_count + (explosion.current_chain + 1))]_vars

\* the position is one of a cell of the field
InsideField(p) == p.x \in 0 .. (WIDTH - 1) /\ p.y \in 0 .. (HEIGHT - 1)

\* C28: in every state of an Explosion the exploded set is the union of the
\* blast regions of the centres of the wave, clipped to the field: it holds no
\* position outside the field.
C28_exploded_set_clipped_to_field ==
    pc = "explosion" =>
        /\ \A p \in explosion.exploded_cell_positions : InsideField(p)
        /\ observed.waves = 0 =>
               explosion.exploded_cell_positions =
                   {p \in scan_exploded_cell_positions(observed.field,
                              Centres(observed.field, ys),
                              explosion.filled_row_count + explosion.current_chain) :
                       InsideField(p)}

\* the field f with the cells at the positions of the set Empty
Emptied(f, positions) ==
    [y \in 0 .. (HEIGHT - 1) |->
        [x \in 0 .. (WIDTH - 1) |-> IF Pos(x, y) \in positions THEN "Empty" ELSE f[y][x]]]

\* C29: in each wave of an Explosion the timed phase comes before the change
\* of the field: the wave counts 20 frames; while the counter advances, the
\* field and the sets of the wave stay as they are; at the tick at which the
\* counter has reached its end, and only then, the cells of the exploded set of
\* the wave become Empty.
C29_field_changes_only_when_the_frames_have_run ==
    [][pc = "explosion" =>
          /\ frame.end = 20
          /\ IF ~AtLastFrame
             THEN /\ field' = field
                  /\ explosion' = explosion
                  /\ pc' = "explosion"
                  /\ frame' = [frame EXCEPT !.current = @ + 1]
             ELSE /\ field' = Emptied(field, explosion.exploded_cell_positions)
                  /\ pc' = "explosion" => frame' = [current |-> 0, end |-> 20]]_vars

\* the first wave of an Explosion has counted its 20 frames and the field is
\* still as it was given, with a normal cell and a bomb in the exploded set
C29_witness ==
    /\ pc = "explosion"
    /\ frame = [current |-> 20, end |-> 20]
    /\ observed.waves = 0
    /\ field = observed.field
    /\ \E p \in explosion.exploded_cell_positions :
           InsideField(p) /\ field[p.y][p.x] = "Normal"
    /\ \E p \in explosion.exploded_cell_positions :
           InsideField(p) /\ field[p.y][p.x] = "Bomb"

\* DropCell is at a wait_next that moves cells
DropCellMoves == pc = "drop_cell" /\ floating_cell_positions # {}

\* the position one cell below
Below(p) == Pos(p.x, p.y + 1)

\* the field f with every cell of the set one cell lower: the value of the
\* cell at its destination, Empty where it was unless a cell of the set came
\* down on it
MovedDown(f, floating) ==
    [y \in 0 .. (HEIGHT - 1) |-> [x \in 0 .. (WIDTH - 1) |->
        IF y > 0 /\ Pos(x, y - 1) \in floating THEN f[y - 1][x]
        ELSE IF Pos(x, y) \in floating THEN "Empty"
        ELSE f[y][x]]]

\* C30: in every step of DropCell the floating cells are moved from the bottom
\* row up, and when a cell is moved its destination, one cell below, is in the
\* field and Empty (it was Empty, or it held a floating cell that has been
\* moved before): no move writes on a non-empty cell or out of the field; the
\* source becomes Empty, the destination takes the value of the source, and no
\* cell is lost.
C30_drop_moves_bottom_row_first_onto_empty_cells ==
    [][DropCellMoves =>
          /\ pc' = "drop_cell"
          /\ \A p \in floating_cell_positions :
                 /\ InsideField(p)
                 /\ field[p.y][p.x] # "Empty"
                 /\ InsideField(Below(p))
                 /\ field[p.y + 1][p.x] = "Empty" \/ Below(p) \in floating_cell_positions
          /\ field' = MovedDown(field, floating_cell_positions)
          /\ Cardinality(NonEmptyCells(field')) = Cardinality(NonEmptyCells(field))]_vars

\* the first step of a DropCell has moved a bomb with a normal cell on it: the
\* two are one cell lower, the bomb where it was empty and the normal cell
\* where the bomb was
C30_witness ==
    /\ pc = "drop_cell"
    /\ observed.steps = 1
    /\ \E x \in 0 .. (WIDTH - 1), y \in 0 .. (HEIGHT - 3) :
           /\ observed.field[y][x] = "Normal"
           /\ observed.field[y + 1][x] = "Bomb"
           /\ observed.field[y + 2][x] = "Empty"
           /\ field[y][x] = "Empty"
           /\ field[y + 1][x] = "Normal"
           /\ field[y + 2][x] = "Bomb"

\* the phases of the resolution loop of a turn
ResolutionPhases == {"full_row", "explosion", "drop_cell"}

\* C31: the chain counter is 0 when the resolution of a turn starts, and the
\* counter given to each Explosion::try_init of the turn is never smaller than
\* the one given to the Explosion before: the counter held by execute_game is
\* given to try_init as it is, and changes only when a DropCell has finished,
\* to a counter that is not smaller.
C31_chain_counter_starts_at_zero_and_never_decreases ==
    [][/\ (pc = "place_block" /\ pc' = "full_row") => explosion_chain' = 0
       /\ (pc = "full_row" /\ pc' = "explosion") =>
              observed'.chain = explosion_chain /\ explosion'.current_chain = explosion_chain
       /\ (pc \in ResolutionPhases /\ pc' \in ResolutionPhases) =>
              /\ explosion_chain' >= explosion_chain
              /\ explosion_chain' # explosion_chain => pc = "drop_cell" /\ pc' = "full_row"]_vars

\* the second Explosion of a turn runs, made with the counter 1
C31_witness ==
    /\ pc = "explosion"
    /\ observed.chain = 1
    /\ explosion_chain = 1
    /\ observed.field # <<>>
    /\ explosion.exploded_cell_positions # {}

\* C32: an AnimationFrame made with the frame count N has current <= end in
\* every state, and wait_next returns Some exactly N times before it returns
\* None. So PlaceBlock reports InProgress exactly 5 times and then Finished,
\* and the field it finishes with is the field it was given.
C32_frame_counts_to_its_end_and_place_block_keeps_the_field ==
    /\ [](frame.current <= frame.end)
    /\ [](pc = "call wait_next" =>
             /\ frame.end = ret.val.count
             /\ ret.val.somes = frame.current
             /\ ret.val.somes <= ret.val.count
             /\ ret.val.none => ret.val.somes = ret.val.count)
    /\ [][pc = "call wait_next" => (ret'.val.none <=> frame.current = frame.end)]_vars
    /\ [][pc = "place_block" =>
             /\ frame.end = 5
             /\ field' = field
             /\ IF frame.current < 5
                THEN pc' = "place_block" /\ frame' = [frame EXCEPT !.current = @ + 1]
                ELSE pc' = "full_row" /\ observed'.field = field]_vars

\* PlaceBlock has finished after 5 frames, and FullRow is made with the field
\* PlaceBlock was given, which has cells and a bomb
C32_witness ==
    /\ pc = "full_row"
    /\ frame.current = 0
    /\ observed.field = field
    /\ BombCount(field) >= 1
    /\ FullRows(field) # {}

\* block k (from 0) of the sequence a generator at the place start of its cycle
\* generates
Generated(start, k) ==
    Block_new(QuadrupleBlockGenerator_shapes[
                  ((start + k) % Len(QuadrupleBlockGenerator_shapes)) + 1],
              "Above", BombTag_Single(0))

\* block k (from 0) of the blocks generated for the next-block queue: BlockQueue::new
\* generates NEXT_BLOCK_NUM blocks for the queue, then one for the hold
\* slot; every later block is for the queue
GeneratedForQueue(start, k) ==
    IF k < NEXT_BLOCK_NUM THEN Generated(start, k) ELSE Generated(start, k + 1)

\* C33: the next-block queue is a FIFO that stays full: the calls of
\* pop_and_fill return the blocks in the order the selector generated them for
\* the queue, and after every pop the queue holds NEXT_BLOCK_NUM blocks, the
\* next ones of that sequence in order.
C33_next_block_queue_is_a_full_fifo ==
    pc = "call pop_and_fill" =>
        \E start \in {ret.val.start}, n \in {Len(ret.val.popped)} :
            /\ \A k \in 1 .. n : ret.val.popped[k] = GeneratedForQueue(start, k - 1)
            /\ Len(block_queue.next_blocks) = NEXT_BLOCK_NUM
            /\ \A j \in 1 .. NEXT_BLOCK_NUM :
                   block_queue.next_blocks[j] = GeneratedForQueue(start, n + j - 1)
            /\ block_queue.hold_block = Generated(start, NEXT_BLOCK_NUM)

\* four blocks have been popped from a queue made by a fresh generator: O, J,
\* Z and S (L is in the hold slot), and the queue holds T and I
C33_witness ==
    /\ pc = "call pop_and_fill"
    /\ ret.val.start = 0
    /\ Len(ret.val.popped) = 4
    /\ [k \in 1 .. 4 |-> ret.val.popped[k].tables] = <<"O", "J", "Z", "S">>
    /\ [k \in 1 .. 2 |-> block_queue.next_blocks[k].tables] = <<"T", "I">>

\* ------------------------------------------------------------------------
\* C34
\* ------------------------------------------------------------------------
\* an operation of AgentField has returned
AgentFieldReturned == pc = "call AgentField" /\ ret.some /\ prev.some

\* C34: every operation of AgentField returns Done only with the state of the
\* controlled block or the field changed, and Stay only with it unchanged
C34_done_means_changed_and_stay_means_unchanged ==
    AgentFieldReturned =>
        /\ ret.val = "Done" => AgentField_self # prev.val
        /\ ret.val = "Stay" => AgentField_self = prev.val

\* the claim with drop_block left out
C34_holds_for_the_other_operations ==
    (AgentFieldReturned /\ last_command # "drop_block") =>
        /\ ret.val = "Done" => AgentField_self # prev.val
        /\ ret.val = "Stay" => AgentField_self = prev.val

\* drop_block has returned Done for a block that could not move down
C34_drop_of_a_resting_block ==
    /\ AgentFieldReturned
    /\ last_command = "drop_block"
    /\ ret.val = "Done"
    /\ AgentField_self = prev.val

\* ------------------------------------------------------------------------
\* C35 .. C37
\* ------------------------------------------------------------------------
\* execute_game is at the top of its loop, about to call
\* FieldUnderAgentControl::new
AtSpawn == pc = "spawn"

\* an Explosion has run in the turn that ends
ExplodedInTheTurn == explosion_chain > ChainCounter_new

\* the bombs that lie in a full row of f
BombsInFullRows(f) ==
    {p \in NonEmptyCells(f) :
        p.y \in FullRows(f) /\ f[p.y][p.x] \in {"Bomb", "BigBombUpperLeft"}}

\* C35: at every spawn of execute_game no full row of the field holds a bomb
C35_no_bomb_in_a_full_row_at_spawn ==
    AtSpawn => BombsInFullRows(field) = {}

\* a spawn after a turn with an explosion, the field still having a full row
C35_witness ==
    AtSpawn /\ ExplodedInTheTurn /\ FullRows(field) # {}

\* C36: at every spawn of execute_game the field has no floating cell: every
\* non-empty cell is joined to the bottom row through non-empty cells
C36_no_floating_cell_at_spawn ==
    AtSpawn => Supported(field)

\* a spawn after a turn with an explosion, cells being left on the field
C36_witness ==
    AtSpawn /\ ExplodedInTheTurn /\ NonEmptyCells(field) # {} /\ FullRows(field) = {}

\* C37: at every spawn of execute_game filled_row_ys lists exactly the full
\* rows of the field, sorted and each once; when a DropCell finishes the list
\* is emptied and the full rows of the settled field are detected again
C37_remembered_rows_are_the_full_rows_at_spawn ==
    /\ [](AtSpawn => ListsTopDown(filled_row_ys, FullRows(field)))
    /\ [][DropCellFinishes =>
            /\ filled_row_ys' = <<>>
            /\ pc' = "full_row"
            /\ ListsTopDown(ys', FullRows(field'))]_vars

\* a spawn after a turn without explosion, the field having two full rows or
\* more, all remembered
C37_witness ==
    /\ AtSpawn
    /\ Len(filled_row_ys) >= 2
    /\ ListsTopDown(filled_row_ys, FullRows(field))
    /\ ~ExplodedInTheTurn

\* ------------------------------------------------------------------------
\* C38
\* ------------------------------------------------------------------------
\* the values of the non-empty cells of column x of f, from the top down
ColumnCells(f, x) ==
    SelectSeq([i \in 1 .. HEIGHT |-> f[i - 1][x]], LAMBDA c : c # "Empty")

\* the non-empty cells of f that are joined to the bottom row
SupportedCells(f) ==
    LET cells == NonEmptyCells(f)
    IN  ReachedFrom(cells, {p \in cells : p.y = HEIGHT - 1})

\* C38: every step of DropCell keeps, in every column, the sequence of the
\* values of the non-empty cells from the top down, and leaves every cell that
\* is joined to the bottom row where it is
C38_drop_step_keeps_every_column ==
    [][pc = "drop_cell" =>
          /\ \A x \in 0 .. (WIDTH - 1) : ColumnCells(field', x) = ColumnCells(field, x)
          /\ \A p \in SupportedCells(field) : field'[p.y][p.x] = field[p.y][p.x]]_vars

\* a DropCell has moved a column of two different cells or more twice, beside
\* cells that stand on the ground
C38_witness ==
    /\ pc = "drop_cell"
    /\ observed.steps = 2
    /\ SupportedCells(observed.field) # {}
    /\ \E x \in 0 .. (WIDTH - 1) :
           /\ Len(ColumnCells(field, x)) >= 2
           /\ \E i \in 1 .. (Len(ColumnCells(field, x)) - 1) :
                  ColumnCells(field, x)[i] # ColumnCells(field, x)[i + 1]
           /\ \E y \in 0 .. (HEIGHT - 3) :
                  observed.field[y][x] # "Empty" /\ field[y + 2][x] = observed.field[y][x]
                  /\ field[y][x] = "Empty"

\* ------------------------------------------------------------------------
\* C39
\* ------------------------------------------------------------------------
\* C39: within one Explosion no position is a centre in more than one wave (the
\* bombs a wave has caught, which are the centres of the next wave, have not
\* been centres before), and every wave has a centre that is still a bomb and
\* an exploded set that is not empty
C39_no_position_is_a_centre_twice ==
    /\ [](pc = "explosion" => explosion.exploded_cell_positions # {})
    /\ [][WaveEndsWithCaughtBombs =>
            /\ explosion.caught_bomb_positions \cap observed.centres = {}
            /\ \E p \in explosion.caught_bomb_positions :
                   is_explodable_cell_of(field, p)]_vars

\* the claim for the Explosions in which no wave catches a bomb that has been
\* a centre
C39_holds_unless_a_centre_is_caught_again ==
    /\ [](pc = "explosion" =>
            \/ explosion.exploded_cell_positions # {}
            \/ \E p \in observed.centres : observed.field[p.y][p.x] = "Bomb" /\ field[p.y][p.x] = "Empty"
                                           /\ observed.waves >= 2)
    /\ [][(WaveEndsWithCaughtBombs /\ explosion.caught_bomb_positions \cap observed.centres = {}) =>
            \A p \in explosion.caught_bomb_positions : is_explodable_cell_of(field, p)]_vars

\* a wave is displayed whose only centre was a centre of an earlier wave of the
\* Explosion and is Empty by now: its exploded set is empty
C39_wave_of_a_centre_caught_again ==
    /\ pc = "explosion"
    /\ observed.waves >= 2
    /\ explosion.exploded_cell_positions = {}
    /\ explosion.caught_bomb_positions = {}

\* ------------------------------------------------------------------------
\* C40
\* ------------------------------------------------------------------------
\* v lies in the range
InRange(range, v) ==
    /\ range.start <= v
    /\ range.kind = "Range" => v < range.end
    /\ range.kind = "RangeInclusive" => v <= range.end

\* the last call of next found current = before and behaved as the claim says:
\* Some and current one more if before + 1 is in the range, None and current
\* as it was if not
NextAsClaimed(c) ==
    IF InRange(c.counter.range, c.before + 1)
    THEN c.last = "Some" /\ c.counter.current = c.before + 1
    ELSE c.last = "None" /\ c.counter.current = c.before

\* is_ended can be computed and is true exactly when current + 1 is outside
\* the range
IsEndedAsClaimed(c) ==
    /\ c.counter.current + 1 \in i8_values
    /\ Counter_is_ended(c.counter, c.counter.current + 1)
           <=> ~InRange(c.counter.range, c.counter.current + 1)

\* the range holds a value, and its values stay below the largest i8
CountsBelowTheMaximum(range) ==
    /\ InRange(range, range.start)
    /\ range.kind = "Range" \/ (range.kind = "RangeInclusive" /\ range.end < 127)

\* C40 (amended): for a Counter over a range that holds its included start and
\* whose values stay below the largest value of T, current starts at the start
\* and stays in the range, next advances it by one with Some while current + 1
\* is in the range and returns None without a change from then on, and
\* is_ended is true exactly then. Over an empty range current is the start,
\* outside the range, and next never returns Some; only at the largest value of
\* T does the sum overflow, and below it next is as said for every range.
C40_counter_counts_through_a_range_below_the_maximum ==
    pc = "call Counter" =>
        \E c \in {ret.val} :
            /\ c.last = "new" => c.counter.current = c.counter.range.start
            /\ CountsBelowTheMaximum(c.counter.range) =>
                   /\ InRange(c.counter.range, c.counter.current)
                   /\ c.last # "new" => NextAsClaimed(c)
                   /\ IsEndedAsClaimed(c)
            /\ ~InRange(c.counter.range, c.counter.range.start) =>
                   /\ c.counter.current = c.counter.range.start
                   /\ c.last # "Some"
                   /\ c.counter.current < 127 =>
                          Counter_is_ended(c.counter, c.counter.current + 1)
            /\ c.last = "panicked" => c.before = 127
            /\ (c.last # "new" /\ c.before < 127) => NextAsClaimed(c)

\* over 1..4 the counter has counted 1, 2, 3 and the next call has returned
\* None
C40_witness ==
    /\ pc = "call Counter"
    /\ ret.val.counter.range = [kind |-> "Range", start |-> 1, end |-> 4]
    /\ ret.val.counter.current = 3
    /\ ret.val.last = "None"

\* C40: for a Counter over a range with an included start, current starts at
\* the start and always stays in the range, next advances it by one and returns
\* Some while current + 1 is in the range, returns None and leaves it unchanged
\* once current + 1 is outside, and is_ended is true exactly in those states
C40_counter_stays_in_range_and_stops_at_its_end ==
    pc = "call Counter" =>
        \E c \in {ret.val} :
            /\ c.last = "new" => c.counter.current = c.counter.range.start
            /\ InRange(c.counter.range, c.counter.current)
            /\ c.last # "new" => NextAsClaimed(c)
            /\ IsEndedAsClaimed(c)
====
